---- MODULE Spec2Model ----
(***************************************************************************)
(* A model of the TooJpeg17 baseline JPEG encoder                          *)
(* (src/src/toojpeg_17.h, src/src/toojpeg_17.cpp): the container driver    *)
(* writeJpegQuality / writeJpegIntern, the bit writer, the Huffman and     *)
(* codeword tables, the quantization table builder and the block encoder.  *)
(*                                                                         *)
(* The float DCT is not computed: an image is given by the quantized       *)
(* coefficients of its blocks (see Images), which is what encode_block     *)
(* hands to its entropy coder after DCT, scaling and rounding.             *)
(***************************************************************************)
EXTENDS Integers, Sequences, FiniteSets, TLC

VARIABLES
  pc,               \* position of the encode call
  args,             \* the arguments of the call to writeJpegQuality
  failAt,           \* the sink invocation at which the sink throws (0: never)
  downsample,       \* writeJpegQuality's parameter after line 223
  quantLuminance,   \* the tables built at lines 238-239 (<<>> before that)
  quantChrominance,
  buffer,           \* BitWriter::buffer
  out,              \* all bytes the sink has received, in order
  calls,            \* number of sink invocations so far
  result,           \* how the call ended: "none" while it runs
  mcuX, mcuY,       \* loop variables of writeJpegIntern
  blockX, blockY,
  lastYDC, lastCbDC, lastCrDC,
  blockNo,          \* number of blocks encoded so far
  log,              \* history: one entry per write step, with its byte range
  Y, Cb, Cr,        \* the sample arrays of writeJpegIntern (line 363)
  undefinedBehaviour, \* the call has executed an operation whose behaviour
                    \* is undefined
  urlBase,          \* the string a Url is constructed from
  absolute_url,     \* the Url constructed from it
  url_s,            \* the second argument of Url::from_relative
  image_url,        \* what Url::from_relative returned
  ops,              \* BitWriter operations still to be applied
  applied,          \* BitWriter operations applied so far
  clearWriter,      \* a BitWriter<true> given the same operations
  blockIn,          \* the arguments of a call of encode_block on its own
  lookups,          \* the array reads that call made: <<array, index>>
  tableIn,          \* the arguments of a table builder called on its own
  tableOut,         \* the table it returned
  socket,           \* the bytes the peer has sent and read() has not returned
  buffer_,          \* HttpSocket::buffer_, its first dataRead bytes
  parsed,           \* HttpHeaderParser::parsed
  callback,         \* the ByteViews handed to write_back, in order
  returned          \* what HttpSocket::receive returned

vars == <<pc, args, failAt, downsample, quantLuminance, quantChrominance,
          buffer, out, calls, result, mcuX, mcuY, blockX, blockY,
          lastYDC, lastCbDC, lastCrDC, blockNo, log, Y, Cb, Cr,
          undefinedBehaviour, urlBase, absolute_url, url_s, image_url,
          ops, applied, clearWriter, blockIn, lookups, tableIn, tableOut,
          socket, buffer_, parsed, callback, returned>>

\* ------------------------------------------------------------------------
\* Fixed-width integer arithmetic
\* ------------------------------------------------------------------------

Pow2(n) == 2 ^ n

U8(x) == x % 256

U16(x) == x % 65536

\* x >> n on an unsigned value
Shr(x, n) == x \div Pow2(n)

RECURSIVE BitOrRec(_, _, _)
\* a | b on operands below 2^k: the low k \div 2 bits and the bits above
\* them are combined separately
BitOrRec(a, b, k) ==
  IF k = 0 \/ (a = 0 /\ b = 0) THEN 0
  ELSE IF k = 1 THEN (IF a = 1 \/ b = 1 THEN 1 ELSE 0)
  ELSE BitOrRec(a % Pow2(k \div 2), b % Pow2(k \div 2), k \div 2)
       + Pow2(k \div 2) * BitOrRec(a \div Pow2(k \div 2), b \div Pow2(k \div 2),
                                   k - k \div 2)

\* a | b on operands below 2^31
BitOr(a, b) == BitOrRec(a, b, 31)

RECURSIVE BitAndRec(_, _, _)
\* a & b on operands below 2^k, split like a | b
BitAndRec(a, b, k) ==
  IF k = 0 \/ a = 0 \/ b = 0 THEN 0
  ELSE IF k = 1 THEN (IF a = 1 /\ b = 1 THEN 1 ELSE 0)
  ELSE BitAndRec(a % Pow2(k \div 2), b % Pow2(k \div 2), k \div 2)
       + Pow2(k \div 2) * BitAndRec(a \div Pow2(k \div 2), b \div Pow2(k \div 2),
                                    k - k \div 2)

\* a & b on operands below 2^31
BitAnd(a, b) == BitAndRec(a, b, 31)

\* A uint32_t is kept as two 16-bit halves [hi, lo] (the model checker's
\* integers are 32-bit signed).
Zero32 == [hi |-> 0, lo |-> 0]

\* d << n on a uint32_t, 0 <= n <= 16: the bits shifted out at the top are lost
Shl32(d, n) ==
  LET keep == Pow2(16 - n)
  IN [hi |-> (d.hi % keep) * Pow2(n) + (d.lo \div keep),
      lo |-> (d.lo % keep) * Pow2(n)]

\* d | c for a 16-bit c
Or32(d, c) == [hi |-> d.hi, lo |-> BitOr(d.lo, c)]

\* uint8_t(d), the shift left out
Byte32Low(d, n) == d.lo % 256

\* uint16_t(d >> n): the value not cut down to eight bits
Byte32Wide(d, n) ==
  IF n >= 16 THEN d.hi \div Pow2(n - 16)
  ELSE (d.hi % Pow2(n)) * Pow2(16 - n) + (d.lo \div Pow2(n))

\* uint8_t(d >> n), 0 <= n <= 31
Byte32(d, n) ==
  IF n >= 16 THEN (d.hi \div Pow2(n - 16)) % 256
  ELSE ((d.hi % 256) * Pow2(16 - n) + (d.lo \div Pow2(n))) % 256

\* d & ((1u << n) - 1), 0 <= n <= 31
Low32(d, n) ==
  IF n >= 16 THEN [hi |-> d.hi % Pow2(n - 16), lo |-> d.lo]
  ELSE [hi |-> 0, lo |-> d.lo % Pow2(n)]

\* clamp(v, lo, hi)
Clamp(v, lo, hi) == IF v < lo THEN lo ELSE IF v > hi THEN hi ELSE v

\* ------------------------------------------------------------------------
\* Static tables (jpeg_constants.h)
\* ------------------------------------------------------------------------

CodeWordLimit == 2048

ZigZagInv ==
  << 0, 1, 8, 16, 9, 2, 3, 10,
     17, 24, 32, 25, 18, 11, 4, 5,
     12, 19, 26, 33, 40, 48, 41, 34,
     27, 20, 13, 6, 7, 14, 21, 28,
     35, 42, 49, 56, 57, 50, 43, 36,
     29, 22, 15, 23, 30, 37, 44, 51,
     58, 59, 52, 45, 38, 31, 39, 46,
     53, 60, 61, 54, 47, 55, 62, 63 >>

DefaultQuantLuminance_A ==
  << 16, 11, 10, 16, 24, 40, 51, 61,
     12, 12, 14, 19, 26, 58, 60, 55,
     14, 13, 16, 24, 40, 57, 69, 56,
     14, 17, 22, 29, 51, 87, 80, 62,
     18, 22, 37, 56, 68, 109, 103, 77,
     24, 35, 55, 64, 81, 104, 113, 92,
     49, 64, 78, 87, 103, 121, 120, 101,
     72, 92, 95, 98, 112, 100, 103, 99 >>

DefaultQuantChrominance_A ==
  << 17, 18, 24, 47, 99, 99, 99, 99,
     18, 21, 26, 66, 99, 99, 99, 99,
     24, 26, 56, 99, 99, 99, 99, 99,
     47, 66, 99, 99, 99, 99, 99, 99,
     99, 99, 99, 99, 99, 99, 99, 99,
     99, 99, 99, 99, 99, 99, 99, 99,
     99, 99, 99, 99, 99, 99, 99, 99,
     99, 99, 99, 99, 99, 99, 99, 99 >>

DcLuminanceCodesPerBitsize ==
  << 0, 1, 5, 1, 1, 1, 1, 1, 1, 0, 0, 0, 0, 0, 0, 0 >>

DcLuminanceValues ==
  << 0, 1, 2, 3, 4, 5, 6, 7, 8, 9, 10, 11 >>

AcLuminanceCodesPerBitsize ==
  << 0, 2, 1, 3, 3, 2, 4, 3, 5, 5, 4, 4, 0, 0, 1, 125 >>

AcLuminanceValues ==
  << 1, 2, 3, 0, 4, 17, 5, 18, 33, 49, 65, 6, 19, 81, 97, 7, 34, 113,
     20, 50, 129, 145, 161, 8, 35, 66, 177, 193, 21, 82, 209, 240, 36, 51, 98, 114,
     130, 9, 10, 22, 23, 24, 25, 26, 37, 38, 39, 40, 41, 42, 52, 53, 54, 55,
     56, 57, 58, 67, 68, 69, 70, 71, 72, 73, 74, 83, 84, 85, 86, 87, 88, 89,
     90, 99, 100, 101, 102, 103, 104, 105, 106, 115, 116, 117, 118, 119, 120, 121, 122, 131,
     132, 133, 134, 135, 136, 137, 138, 146, 147, 148, 149, 150, 151, 152, 153, 154, 162, 163,
     164, 165, 166, 167, 168, 169, 170, 178, 179, 180, 181, 182, 183, 184, 185, 186, 194, 195,
     196, 197, 198, 199, 200, 201, 202, 210, 211, 212, 213, 214, 215, 216, 217, 218, 225, 226,
     227, 228, 229, 230, 231, 232, 233, 234, 241, 242, 243, 244, 245, 246, 247, 248, 249, 250 >>

DcChrominanceCodesPerBitsize ==
  << 0, 3, 1, 1, 1, 1, 1, 1, 1, 1, 1, 0, 0, 0, 0, 0 >>

DcChrominanceValues ==
  << 0, 1, 2, 3, 4, 5, 6, 7, 8, 9, 10, 11 >>

AcChrominanceCodesPerBitsize ==
  << 0, 2, 1, 2, 4, 4, 3, 4, 7, 5, 4, 4, 0, 1, 2, 119 >>

AcChrominanceValues ==
  << 0, 1, 2, 3, 17, 4, 5, 33, 49, 6, 18, 65, 81, 7, 97, 113, 19, 34,
     50, 129, 8, 20, 66, 145, 161, 177, 193, 9, 35, 51, 82, 240, 21, 98, 114, 209,
     10, 22, 36, 52, 225, 37, 241, 23, 24, 25, 26, 38, 39, 40, 41, 42, 53, 54,
     55, 56, 57, 58, 67, 68, 69, 70, 71, 72, 73, 74, 83, 84, 85, 86, 87, 88,
     89, 90, 99, 100, 101, 102, 103, 104, 105, 106, 115, 116, 117, 118, 119, 120, 121, 122,
     130, 131, 132, 133, 134, 135, 136, 137, 138, 146, 147, 148, 149, 150, 151, 152, 153, 154,
     162, 163, 164, 165, 166, 167, 168, 169, 170, 178, 179, 180, 181, 182, 183, 184, 185, 186,
     194, 195, 196, 197, 198, 199, 200, 201, 202, 210, 211, 212, 213, 214, 215, 216, 217, 218,
     226, 227, 228, 229, 230, 231, 232, 233, 234, 242, 243, 244, 245, 246, 247, 248, 249, 250 >>

\* ------------------------------------------------------------------------
\* Bit codes, Huffman tables, codewords
\* ------------------------------------------------------------------------

\* BitCode(uint16_t code_, uint8_t numBits_)
BitCode(code, numBits) == [code |-> U16(code), numBits |-> U8(numBits)]

\* a value-initialised BitCode (std::array<BitCode, N> result{})
EmptyBitCode == [code |-> 0, numBits |-> 0]

\* generateHuffmanTable: st = [result, huffmanCode, next].  HuffmanCodes is the
\* inner loop (i from lo to hi over the codes of one bit size, values read at
\* next, 0-based); HuffmanSizes is the outer loop over numBits = 1..16.
HuffmanStep(values, numBits, st) ==
  [result      |-> [st.result EXCEPT ![values[st.next + 1]] =
                       BitCode(st.huffmanCode, numBits)],
   huffmanCode |-> U16(st.huffmanCode + 1),
   next        |-> st.next + 1]

RECURSIVE HuffmanCodes(_, _, _, _, _)
HuffmanCodes(values, numBits, st, lo, hi) ==
  IF lo > hi THEN st
  ELSE IF lo = hi THEN HuffmanStep(values, numBits, st)
  ELSE LET mid  == (lo + hi) \div 2
           left == HuffmanCodes(values, numBits, st, lo, mid)
       IN IF left.next >= 0 THEN HuffmanCodes(values, numBits, left, mid + 1, hi)
                            ELSE left

RECURSIVE HuffmanSizes(_, _, _, _)
HuffmanSizes(numCodes, values, numBits, st) ==
  IF numBits > 16 THEN st.result
  ELSE LET done == HuffmanCodes(values, numBits, st, 0, numCodes[numBits] - 1)
       IN IF done.next >= 0
            THEN HuffmanSizes(numCodes, values, numBits + 1,
                   [done EXCEPT !.huffmanCode = U16(done.huffmanCode * 2)])
            ELSE done.result

generateHuffmanTable(numCodes, values) ==
  HuffmanSizes(numCodes, values, 1,
               [result      |-> [s \in 0..255 |-> EmptyBitCode],
                huffmanCode |-> 0,
                next        |-> 0])

ht_l_dc == generateHuffmanTable(DcLuminanceCodesPerBitsize, DcLuminanceValues)

ht_l_ac == generateHuffmanTable(AcLuminanceCodesPerBitsize, AcLuminanceValues)

ht_c_dc == generateHuffmanTable(DcChrominanceCodesPerBitsize, DcChrominanceValues)

ht_c_ac == generateHuffmanTable(AcChrominanceCodesPerBitsize, AcChrominanceValues)

\* huffman(luminance): the pair (huffmanDC, huffmanAC), by component
huffmanDC(luminance) == IF luminance THEN ht_l_dc ELSE ht_c_dc

huffmanAC(luminance) == IF luminance THEN ht_l_ac ELSE ht_c_ac

\* the mask shifted without the set bit appended
CodewordStepEvenMask(st, value) ==
  LET more    == value > st.mask
      numBits == IF more THEN U8(st.numBits + 1) ELSE st.numBits
      mask    == IF more THEN st.mask * 2 ELSE st.mask
  IN [pos     |-> Append(st.pos, BitCode(value, numBits)),
      neg     |-> Append(st.neg, BitCode(mask - value, numBits)),
      numBits |-> numBits,
      mask    |-> mask]

\* One iteration of the loop of codewords_for_quantized_dct, for `value`:
\* st = [pos, neg, numBits, mask]; pos[v] is codewords[+v], neg[v] codewords[-v].
CodewordStep(st, value) ==
  LET more    == value > st.mask
      numBits == IF more THEN U8(st.numBits + 1) ELSE st.numBits
      mask    == IF more THEN BitOr(st.mask * 2, 1) ELSE st.mask
  IN [pos     |-> Append(st.pos, BitCode(value, numBits)),
      neg     |-> Append(st.neg, BitCode(mask - value, numBits)),
      numBits |-> numBits,
      mask    |-> mask]

\* the loop over value = lo..hi, run in order (the range is halved so that
\* the evaluation stays shallow; the left half is evaluated before the right)
RECURSIVE CodewordLoop(_, _, _)
CodewordLoop(st, lo, hi) ==
  IF lo > hi THEN st
  ELSE IF lo = hi THEN CodewordStep(st, lo)
  ELSE LET mid  == (lo + hi) \div 2
           left == CodewordLoop(st, lo, mid)
       IN IF Len(left.pos) = mid THEN CodewordLoop(left, mid + 1, hi)
          ELSE left

codewords_for_quantized_dct ==
  LET st == CodewordLoop([pos |-> <<>>, neg |-> <<>>, numBits |-> 1, mask |-> 1],
                         1, CodeWordLimit - 1)
  IN [v \in (-CodeWordLimit)..(CodeWordLimit - 1) |->
        IF v > 0 THEN st.pos[v]
        ELSE IF v < 0 /\ v > -CodeWordLimit THEN st.neg[-v]
        ELSE EmptyBitCode]

codewordsArray == codewords_for_quantized_dct

\* ------------------------------------------------------------------------
\* Quantization tables
\* ------------------------------------------------------------------------

\* the libjpeg scale factor computed by writeJpeg / writeJpegQuality (an int)
QualityFactor(quality_) ==
  IF quality_ < 50 THEN 5000 \div quality_ ELSE 200 - quality_ * 2

\* quant_table(defaults, unsigned char quality): the argument is converted to
\* unsigned char at the call
quant_table(defaults, quality) ==
  LET q8 == U8(quality)
  IN [i \in 1..64 |->
        Clamp((defaults[ZigZagInv[i] + 1] * q8 + 50) \div 100, 1, 255)]

\* ------------------------------------------------------------------------
\* BitWriter (toojpeg_17.h): a writer value is [data, numBits, chunks], the
\* BitBuffer and the sink invocations made so far (one byte sequence each)
\* ------------------------------------------------------------------------

NewWriter == [data |-> Zero32, numBits |-> 0, chunks |-> <<>>]

\* operator<<(std::uint8_t oneByte): output(oneByte)
PutByte(w, oneByte) == [w EXCEPT !.chunks = Append(@, <<U8(oneByte)>>)]

\* operator<<(ByteView), operator<<(std::array), operator<<(std::string_view):
\* one sink invocation with the whole range
PutBytes(w, bytes) == [w EXCEPT !.chunks = Append(@, bytes)]

\* no stuffing
StuffedByteNoStuffing(w, oneByte) == PutByte(w, oneByte)

\* the zero written before the FF
StuffedByteZeroFirst(w, oneByte) ==
  IF oneByte = 255 THEN PutByte(PutByte(w, 0), oneByte)
                   ELSE PutByte(w, oneByte)

\* *this << oneByte, and the stuffed zero after a 0xFF
StuffedByte(w, oneByte) ==
  IF oneByte = 255 THEN PutByte(PutByte(w, oneByte), 0)
                   ELSE PutByte(w, oneByte)

\* one round of the loop "write all full bytes": numBits is buffer.numBits
\* after the subtraction
WriteOneByte(clear_upper_bits, w, numBits) ==
  [StuffedByte(w, Byte32(w.data, numBits)) EXCEPT
     !.data    = IF clear_upper_bits THEN Low32(w.data, numBits) ELSE w.data,
     !.numBits = numBits]

\* "if" in place of "while": at most one byte is written
WriteFullBytesOnce(clear_upper_bits, w) ==
  IF w.numBits >= 8
    THEN WriteOneByte(clear_upper_bits, w, w.numBits - 8)
    ELSE w

RECURSIVE WriteFullBytes(_, _)
\* the loop "write all full bytes" of operator<<(const BitCode &)
WriteFullBytes(clear_upper_bits, w) ==
  IF w.numBits >= 8
    THEN WriteFullBytes(clear_upper_bits,
                        WriteOneByte(clear_upper_bits, w, w.numBits - 8))
    ELSE w

\* BitWriter<clear_upper_bits>::operator<<(const BitCode &data)
PutBitCodeT(clear_upper_bits, w, bc) ==
  WriteFullBytes(clear_upper_bits,
                 [w EXCEPT !.numBits = U8(w.numBits + bc.numBits),
                           !.data    = Or32(Shl32(w.data, bc.numBits), bc.code)])

\* the encoder's writer is BitWriter<>, clear_upper_bits = false
PutBitCode(w, bc) == PutBitCodeT(FALSE, w, bc)

\* the padding made of zero bits
FlushBitsZeros(w) == PutBitCode(w, BitCode(0, 7))

\* BitWriter::flush
FlushBits(w) == PutBitCode(w, BitCode(127, 7))

\* BitWriter::addMarker(id, uint16_t length): four single-byte invocations
AddMarker(w, id, length) ==
  PutByte(PutByte(PutByte(PutByte(w, 255), id), Shr(U16(length), 8)),
          BitAnd(U16(length), 255))

\* ------------------------------------------------------------------------
\* Block encoder (encode_block), after DCT, scaling and rounding:
\* DC is the rounded DC coefficient, quantized[1..63] the rounded AC
\* coefficients in zig-zag order
\* ------------------------------------------------------------------------

\* posNonZero after the quantization loop: the last index with a non-zero
\* coefficient, 0 if there is none
PosNonZero(quantized) ==
  LET nonZero == {i \in 1..63 : quantized[i] # 0}
  IN IF nonZero = {} THEN 0
     ELSE CHOOSE i \in nonZero : \A j \in nonZero : j <= i

\* writer << huffmanDC[bits.numBits] << bits
PutDiff(w, luminance, bits) ==
  PutBitCode(PutBitCode(w, huffmanDC(luminance)[bits.numBits]), bits)

\* DC emission
EncodeDC(w, luminance, diff) ==
  IF diff = 0 THEN PutBitCode(w, huffmanDC(luminance)[0])
              ELSE PutDiff(w, luminance, codewordsArray[diff])

\* the entries of codewords and huffmanDC the DC emission reads
LookupsDC(luminance, diff) ==
  IF diff = 0 THEN { <<"huffmanDC", 0>> }
  ELSE { <<"codewords", diff>>,
         <<"huffmanDC", codewordsArray[diff].numBits>> }

\* the state of the AC emission after the DC emission: the writer, the
\* index i, the zero count and the array reads made so far
AfterDC(w, luminance, diff) ==
  [w |-> EncodeDC(w, luminance, diff), i |-> 1, offset |-> 0,
   lookups |-> LookupsDC(luminance, diff)]

\* the state s after a read of quantized[s.i]
ReadQuantized(s) == [s EXCEPT !.lookups = @ \cup { <<"quantized", s.i>> }]

RECURSIVE SkipZerosLoop(_, _, _, _)
\* at most n iterations of the inner while loop of the AC emission, s being
\* the writer, index and zero count before them: an iteration skips one
\* zero and writes a ZRL symbol (0xF0) for every 16 of them; the condition
\* reads quantized[i] without looking at posNonZero.  A read outside
\* quantized[1..63] has no defined value: it is recorded and the loop is
\* left there.  The iterations are split in halves to keep the evaluation
\* shallow.
SkipZerosLoop(s, luminance, quantized, n) ==
  IF s.i \notin 1..63 THEN ReadQuantized(s)
  ELSE IF quantized[s.i] # 0 THEN ReadQuantized(s)
  ELSE IF n > 1
    THEN SkipZerosLoop(SkipZerosLoop(s, luminance, quantized, n \div 2),
                       luminance, quantized, n - n \div 2)
  ELSE IF s.offset + 16 > 240
    THEN [w |-> PutBitCode(s.w, huffmanAC(luminance)[240]),
          i |-> s.i + 1, offset |-> 0,
          lookups |-> s.lookups \cup { <<"quantized", s.i>>,
                                       <<"huffmanAC", 240>> }]
    ELSE [w |-> s.w, i |-> s.i + 1, offset |-> s.offset + 16,
          lookups |-> s.lookups \cup { <<"quantized", s.i>> }]

\* the inner while loop left out
SkipZerosNever(s, luminance, quantized) == s

\* the inner while loop of the AC emission, from index i on: it ends at the
\* first non-zero coefficient, after 8 * 8 - 1 iterations at most
SkipZeros(s, luminance, quantized) ==
  SkipZerosLoop(s, luminance, quantized, 8 * 8 - 1)

\* writer << huffmanAC[offset + encoded.numBits] << encoded
PutCoefficient(w, luminance, offset, encoded) ==
  PutBitCode(PutBitCode(w, huffmanAC(luminance)[offset + encoded.numBits]),
             encoded)

\* the rest of one iteration of the for loop of the AC emission, s being
\* the writer, index and zero count after the inner while loop: the writer
\* after the coefficient, the incremented index and offset = 0
\* (nothing more is said of the block after a read outside quantized[1..63])
EncodeCoefficient(s, luminance, quantized, posNonZero) ==
  IF s.i \notin 1..63 THEN [s EXCEPT !.i = 8 * 8]
  ELSE
  [w       |-> PutCoefficient(s.w, luminance, s.offset,
                              codewordsArray[quantized[s.i]]),
   i       |-> s.i + 1,
   offset  |-> 0,
   lookups |-> s.lookups
                 \cup { <<"quantized", s.i>>,
                        <<"codewords", quantized[s.i]>>,
                        <<"huffmanAC",
                          s.offset + codewordsArray[quantized[s.i]].numBits>> }]

RECURSIVE EncodeACLoop(_, _, _, _, _)
\* at most n iterations of the for loop of the AC emission, split in halves
\* like those of the inner loop
EncodeACLoop(s, luminance, quantized, posNonZero, n) ==
  IF s.i > posNonZero THEN s
  ELSE IF n > 1
    THEN EncodeACLoop(EncodeACLoop(s, luminance, quantized, posNonZero,
                                   n \div 2),
                      luminance, quantized, posNonZero, n - n \div 2)
  ELSE EncodeCoefficient(SkipZeros(s, luminance, quantized),
                         luminance, quantized, posNonZero)

\* the for loop run up to the last index whatever posNonZero is
EncodeACToEnd(s, luminance, quantized, posNonZero) ==
  EncodeACLoop(s, luminance, quantized, 8 * 8 - 1, 8 * 8 - 1)

\* the for loop of the AC emission, from the state s on
EncodeAC(s, luminance, quantized, posNonZero) ==
  EncodeACLoop(s, luminance, quantized, posNonZero, 8 * 8 - 1)

\* the end-of-block code written after every block
EncodeEOBAlways(s, luminance, posNonZero) ==
  [s EXCEPT !.w = PutBitCode(s.w, huffmanAC(luminance)[0]),
            !.lookups = @ \cup { <<"huffmanAC", 0>> }]

\* the end-of-block code, only needed if there are trailing zeros
EncodeEOB(s, luminance, posNonZero) ==
  IF posNonZero < 8 * 8 - 1
    THEN [s EXCEPT !.w = PutBitCode(s.w, huffmanAC(luminance)[0]),
                   !.lookups = @ \cup { <<"huffmanAC", 0>> }]
    ELSE s

\* conversion of an int to int16_t
I16(v) == ((v + 32768) % 65536) - 32768

\* the writer after the block, the returned value and the array reads made
Returned(s, DC) == [w |-> s.w, DC |-> DC, lookups |-> s.lookups]

\* the channel's previous DC returned in place of the block's
encode_block_returns_lastDC(w, luminance, DC, quantized, lastDC) ==
  Returned(EncodeEOB(EncodeAC(AfterDC(w, luminance, DC - lastDC),
                              luminance, quantized, PosNonZero(quantized)),
                     luminance, PosNonZero(quantized)),
           lastDC)

\* encode_block<luminance>(writer, block64, scaled, lastDC): the writer after
\* the block and the returned DC
encode_block(w, luminance, DC, quantized, lastDC) ==
  Returned(EncodeEOB(EncodeAC(AfterDC(w, luminance, DC - lastDC),
                              luminance, quantized, PosNonZero(quantized)),
                     luminance, PosNonZero(quantized)),
           I16(DC))

\* ------------------------------------------------------------------------
\* Samples, DCT and scaling (the first half of encode_block).  A float is
\* kept in fixed point, as an integer count of 1/Fix: sums and differences
\* are exact, a product or quotient is rounded to the nearest 1/Fix (the
\* code rounds to the nearest float).  Both agree wherever the operands are
\* equal: a difference of equal samples is exactly zero in either.
\* ------------------------------------------------------------------------

Fix == 10000

Abs(v) == IF v < 0 THEN -v ELSE v

Sign(v) == IF v < 0 THEN -1 ELSE 1

\* n / d rounded to the nearest integer, a tie to the even one (nearbyint
\* in the default rounding mode), for d > 0
RoundDiv(n, d) ==
  LET q == Abs(n) \div d
      r == Abs(n) % d
  IN Sign(n) * (IF 2 * r > d \/ (2 * r = d /\ q % 2 = 1) THEN q + 1 ELSE q)

\* v * k for a factor k given in 1/Fix, without leaving 32 bits
MulFix(v, k) ==
  Sign(v) * ((Abs(v) \div Fix) * k + RoundDiv((Abs(v) % Fix) * k, Fix))

\* v / k for a divisor k given in 1/Fix
DivFix(v, k) ==
  Sign(v) * ((Abs(v) \div k) * Fix + RoundDiv((Abs(v) % k) * Fix, k))

\* rgb2y, rgb2cb, rgb2cr
rgb2y(r, g, b) == 2990 * r + 5870 * g + 1140 * b

rgb2cb(r, g, b) == RoundDiv(50000 * b - 16874 * r - 33126 * g, 10)

rgb2cr(r, g, b) == RoundDiv(50000 * r - 41869 * g - 8131 * b, 10)

\* the constants of DCT, in 1/Fix
SqrtHalfSqrt == 13066

InvSqrt == 7071

HalfSqrtSqrt == 3827

InvSqrtSqrt == 5412

\* the sums and differences of the eight inputs v[1..8]
Butterflies(v) ==
  [add07 |-> v[1] + v[8], sub07 |-> v[1] - v[8],
   add16 |-> v[2] + v[7], sub16 |-> v[2] - v[7],
   add25 |-> v[3] + v[6], sub25 |-> v[3] - v[6],
   add34 |-> v[4] + v[5], sub34 |-> v[4] - v[5]]

EvenPart(s) ==
  [add0347  |-> s.add07 + s.add34, sub07_34 |-> s.add07 - s.add34,
   add1256  |-> s.add16 + s.add25, sub16_25 |-> s.add16 - s.add25]

OddPart(s) ==
  [sub23_45 |-> s.sub25 + s.sub34,
   sub12_56 |-> s.sub16 + s.sub25,
   sub01_67 |-> s.sub16 + s.sub07]

Rotations(e, o, z5) ==
  [z1 |-> MulFix(e.sub16_25 + e.sub07_34, InvSqrt),
   z2 |-> MulFix(o.sub23_45, InvSqrtSqrt) + z5,
   z3 |-> MulFix(o.sub12_56, InvSqrt),
   z4 |-> MulFix(o.sub01_67, SqrtHalfSqrt) + z5]

\* block0 .. block7 as assigned at the end of DCT
Outputs(s, e, z) ==
  << e.add0347 + e.add1256,
     (s.sub07 + z.z3) + z.z4,
     e.sub07_34 + z.z1,
     (s.sub07 - z.z3) - z.z2,
     e.add0347 - e.add1256,
     (s.sub07 - z.z3) + z.z2,
     e.sub07_34 - z.z1,
     (s.sub07 + z.z3) - z.z4 >>

DCTOdd(s, e, o) ==
  Outputs(s, e,
          Rotations(e, o, MulFix(o.sub23_45 - o.sub01_67, HalfSqrtSqrt)))

DCTParts(s) == DCTOdd(s, EvenPart(s), OddPart(s))

\* the eight values DCT leaves in block[0], block[stride], ...
DCT8(v) == DCTParts(Butterflies(v))

DCTPlace(block, start, stride, o8) ==
  [i \in 0..63 |->
     IF i >= start /\ (i - start) % stride = 0 /\ (i - start) \div stride < 8
       THEN o8[(i - start) \div stride + 1]
       ELSE block[i]]

\* DCT(block + start, horizontal): in place on eight entries of block[0..63]
DCT(block, start, horizontal) ==
  DCTPlace(block, start, IF horizontal THEN 1 ELSE 8,
           DCT8([k \in 1..8 |->
                   block[start + (k - 1) * (IF horizontal THEN 1 ELSE 8)]]))

RECURSIVE DCTLoop(_, _, _)
\* for (offset = 0; offset < 8; offset++) DCT(block64 + offset * step, ...)
DCTLoop(block, offset, horizontal) ==
  IF offset >= 8 THEN block
  ELSE DCTLoop(DCT(block, offset * (IF horizontal THEN 8 ELSE 1), horizontal),
               offset + 1, horizontal)

\* AanScaleFactors, in 1/Fix
AanScaleFactors == << 10000, 13870, 13066, 11759, 10000, 7857, 5412, 2759 >>

\* scaled_luminance(quantLuminance): entry n (natural order) stands for the
\* float 1 / (aanRow * aanColumn * 8) / quant
scaled_luminance(quantTable) ==
  [n \in 0..63 |->
     [aanRow    |-> AanScaleFactors[(n \div 8) + 1],
      aanColumn |-> AanScaleFactors[(n % 8) + 1],
      quant     |-> quantTable[CHOOSE i \in 1..64 : ZigZagInv[i] = n]]]

scaled_chrominance(quantTable) == scaled_luminance(quantTable)

\* nearbyint(value * scaled)
ScaleAndRound(value, scaled) ==
  RoundDiv(DivFix(DivFix(value, scaled.aanRow), scaled.aanColumn),
           8 * scaled.quant * Fix)

\* lines 156-177 of encode_block: DCT of rows and columns, scaling, rounding,
\* zig-zag; DC and quantized[1..63]
Transformed(block64, scaled) ==
  [DC        |-> ScaleAndRound(block64[0], scaled[0]),
   quantized |-> [i \in 1..63 |->
                    ScaleAndRound(block64[ZigZagInv[i + 1]],
                                  scaled[ZigZagInv[i + 1]])]]

Quantized(block64, scaled) ==
  Transformed(DCTLoop(DCTLoop(block64, 0, TRUE), 0, FALSE), scaled)

\* ------------------------------------------------------------------------
\* The pixel buffer and the sampling loops of writeJpegIntern.  A pixel
\* image is [kind, colour]: "flat" has every pixel of the colour <<r, g, b>>
\* (grayscale: r), "ramp" has byte k of the buffer equal to (7 * k) % 256.
\* An int whose computation overflows, a byte read outside the buffer and a
\* sample computed from either are Undefined here; what the build makes of
\* them is chosen where the sample array is used.
\* ------------------------------------------------------------------------

IntMax == 2147483647

Undefined == -2000000000

Min(a, b) == IF a < b THEN a ELSE b

\* a + b in int arithmetic, for a, b >= 0
Add(a, b) ==
  IF a = Undefined \/ b = Undefined THEN Undefined
  ELSE IF a > IntMax - b THEN Undefined
  ELSE a + b

\* a - 1 in int arithmetic, for a >= 1
Pred(a) == IF a = Undefined THEN Undefined ELSE a - 1

\* a * b + c in int arithmetic, for a, b, c >= 0
MulAdd(a, b, c) ==
  IF a = Undefined \/ c = Undefined THEN Undefined
  ELSE IF b > 0 /\ a > (IntMax - c) \div b THEN Undefined
  ELSE a * b + c

\* pixels[offset], the buffer holding height rows of width pixels of bpp
\* bytes each
PixelByte(image, width, height, bpp, offset) ==
  IF offset = Undefined \/ offset < 0 \/ offset \div (width * bpp) >= height
    THEN Undefined
  ELSE IF image.kind = "flat" THEN image.colour[(offset % bpp) + 1]
  ELSE (7 * (offset % 256)) % 256

RECURSIVE ColumnAt(_, _, _)
\* column after deltaX iterations of: if (column < maxWidth) column++
ColumnAt(column, deltaX, maxWidth) ==
  IF deltaX = 0 THEN column
  ELSE ColumnAt(IF column < maxWidth THEN column + 1 ELSE column,
                deltaX - 1, maxWidth)

\* pixelPos of the sample (deltaY, deltaX) of the block at (x0, y0), lines
\* 377-382
PixelPos(width, height, x0, y0, deltaY, deltaX) ==
  MulAdd(Min(y0 + deltaY, height - 1), width,
         ColumnAt(Min(x0, width - 1), deltaX, width - 1))

\* r, g, b of the pixel at pixelPos, lines 392-394
RGBAt(image, width, height, pixelPos) ==
  [k \in 1..3 |->
     PixelByte(image, width, height, 3, MulAdd(pixelPos, 3, k - 1))]

Defined(values) == \A k \in DOMAIN values : values[k] # Undefined

\* Y[deltaY][deltaX], lines 386-397
YSample(image, width, height, isRGB, pixelPos) ==
  IF ~isRGB
    THEN IF PixelByte(image, width, height, 1, pixelPos) = Undefined
           THEN Undefined
           ELSE (PixelByte(image, width, height, 1, pixelPos) - 128) * Fix
    ELSE IF ~Defined(RGBAt(image, width, height, pixelPos)) THEN Undefined
    ELSE rgb2y(RGBAt(image, width, height, pixelPos)[1],
               RGBAt(image, width, height, pixelPos)[2],
               RGBAt(image, width, height, pixelPos)[3]) - 128 * Fix

\* Cb[deltaY][deltaX] and Cr[deltaY][deltaX] of YCbCr444, lines 399-402
CbSample(rgb, divisor) ==
  IF ~Defined(rgb) THEN Undefined
  ELSE RoundDiv(rgb2cb(rgb[1], rgb[2], rgb[3]), divisor)

CrSample(rgb, divisor) ==
  IF ~Defined(rgb) THEN Undefined
  ELSE RoundDiv(rgb2cr(rgb[1], rgb[2], rgb[3]), divisor)

\* The sample arrays, entry deltaY * 8 + deltaX, as the loops of lines
\* 375-404 fill them for the block at (x0, y0)
YBlock(image, width, height, isRGB, x0, y0) ==
  [n \in 0..63 |->
     YSample(image, width, height, isRGB,
             PixelPos(width, height, x0, y0, n \div 8, n % 8))]

CbBlock(image, width, height, x0, y0) ==
  [n \in 0..63 |->
     CbSample(RGBAt(image, width, height,
                    PixelPos(width, height, x0, y0, n \div 8, n % 8)), 1)]

CrBlock(image, width, height, x0, y0) ==
  [n \in 0..63 |->
     CrSample(RGBAt(image, width, height,
                    PixelPos(width, height, x0, y0, n \div 8, n % 8)), 1)]

\* the sums r, g, b of the 2x2 area at pixelPos, lines 439-447
QuadSum(image, width, height, pixelPos, columnStep, rowStep) ==
  [k \in 1..3 |->
     LET quad == << PixelByte(image, width, height, 3,
                              Add(pixelPos, k - 1)),
                    PixelByte(image, width, height, 3,
                              Add(Add(pixelPos, columnStep), k - 1)),
                    PixelByte(image, width, height, 3,
                              Add(Add(pixelPos, rowStep), k - 1)),
                    PixelByte(image, width, height, 3,
                              Add(Add(Add(pixelPos, columnStep), rowStep),
                                  k - 1)) >>
     IN IF Defined(quad) THEN quad[1] + quad[2] + quad[3] + quad[4]
        ELSE Undefined]

RECURSIVE ChromaRow(_, _, _, _, _, _, _, _)
\* the loop over deltaX of lines 432-460 from deltaX on: the sums of the
\* remaining 2x2 areas of the row
ChromaRow(image, width, height, row, deltaX, pixelPos, column, columnStep) ==
  IF deltaX >= 8 THEN <<>>
  ELSE << QuadSum(image, width, height, pixelPos, columnStep,
                  IF row < height - 1 THEN 3 * width ELSE 0) >>
       \o ChromaRow(image, width, height, row, deltaX + 1,
                    IF column + 2 >= width - 1
                      THEN MulAdd(Pred(MulAdd(row + 1, width, 0)), 3, 0)
                      ELSE Add(pixelPos, 6),
                    column + 2,
                    IF column + 2 >= width - 1 THEN 0 ELSE columnStep)

\* the sums of the row deltaY of the MCU at (x0, y0), lines 421-431
ChromaSums(image, width, height, x0, y0, deltaY) ==
  ChromaRow(image, width, height, Min(y0 + 2 * deltaY, height - 1), 0,
            MulAdd(MulAdd(Min(y0 + 2 * deltaY, height - 1), width, x0), 3, 0),
            x0,
            IF x0 < width - 1 THEN 3 ELSE 0)

\* Cb and Cr as the YCbCr420 pass of lines 419-461 fills them
CbBlock420(image, width, height, x0, y0) ==
  LET rows == [deltaY \in 0..7 |->
                 ChromaSums(image, width, height, x0, y0, deltaY)]
  IN [n \in 0..63 |-> CbSample(rows[n \div 8][(n % 8) + 1], 4)]

CrBlock420(image, width, height, x0, y0) ==
  LET rows == [deltaY \in 0..7 |->
                 ChromaSums(image, width, height, x0, y0, deltaY)]
  IN [n \in 0..63 |-> CrSample(rows[n \div 8][(n % 8) + 1], 4)]

\* ------------------------------------------------------------------------
\* Inputs of the encode call
\* ------------------------------------------------------------------------

\* Quantized coefficients of one block, as encode_block sees them after DCT,
\* scaling and rounding: DC and quantized[1..63] (zig-zag order)
ZeroAC == [i \in 1..63 |-> 0]

BlockKinds ==
  << [DC |-> 0,     quantized |-> ZeroAC],
     [DC |-> -1024, quantized |-> ZeroAC],
     [DC |-> 1016,  quantized |-> ZeroAC],
     [DC |-> 3,     quantized |-> [ZeroAC EXCEPT ![20] = 1, ![63] = -1]],
     [DC |-> -5,    quantized |-> [i \in 1..63 |-> (i % 6) - 7]],
     [DC |-> 1,     quantized |-> [ZeroAC EXCEPT ![1] = 2047, ![2] = -2047,
                                                 ![40] = 255]],
     [DC |-> 0,     quantized |-> [ZeroAC EXCEPT ![1] = 1, ![2] = 1,
                                                 ![15] = 2]],
     [DC |-> 9,     quantized |-> [ZeroAC EXCEPT ![63] = 1]] >>

\* An image is a cyclic sequence of block kinds: its n-th encoded block
\* (n = 0, 1, ...) has the coefficients BlockKinds[image[(n % Len) + 1]]
Images == { <<1>>, <<8>>, <<2, 3>>, <<7, 4>>, <<5, 6, 1>> }

Coefficients(image, n) == BlockKinds[image[(n % Len(image)) + 1]]

\* a comment of n bytes 'A'
CommentOf(n) == [i \in 1..n |-> 65]

ShortComments == { <<>>, <<72, 105>>, <<65, 255, 217>> }

\* comment lengths around the 16-bit limit of the COM length field
LongCommentLengths == { 65495, 65533, 65534 }

Widths == {0, 1, 17}

Heights == {0, 1, 9}

Qualities == {0, 1, 2, 19, 50, 100, 101}

\* the last sink invocation at which the sink is made to throw
MaxFailAt == 48

Arguments(pixelsNull, width, height, ds, isRGB, quality_, comment, image) ==
  [pixelsNull |-> pixelsNull, width |-> width, height |-> height,
   downsample |-> ds, isRGB |-> isRGB, quality_ |-> quality_,
   comment |-> comment, image |-> image]

\* the calls with a sink that never throws
PlainCalls ==
  { Arguments(n, w, h, d, c, q, k, im) :
      n \in BOOLEAN, w \in Widths, h \in Heights, d \in BOOLEAN,
      c \in BOOLEAN, q \in Qualities, k \in ShortComments, im \in Images }

\* the calls with a comment near the limit of the length field
LongCommentCalls ==
  { Arguments(FALSE, 1, 1, FALSE, FALSE, 50, CommentOf(n), <<1>>) :
      n \in LongCommentLengths }

\* the calls whose sink throws at some invocation
ThrowingSinkCalls ==
  { Arguments(FALSE, 17, 9, d, c, 50, <<72, 105>>, <<5, 6, 1>>) :
      d \in BOOLEAN, c \in BOOLEAN }

\* ------------------------------------------------------------------------
\* The sink
\* ------------------------------------------------------------------------

RECURSIVE Flatten(_, _, _)
\* the bytes of chunks[lo..hi], concatenated
Flatten(chunks, lo, hi) ==
  IF lo > hi THEN <<>>
  ELSE IF lo = hi THEN chunks[lo]
  ELSE LET mid == (lo + hi) \div 2
       IN Flatten(chunks, lo, mid) \o Flatten(chunks, mid + 1, hi)

\* the sink throws during these invocations
Throws(chunks) == failAt \in (calls + 1)..(calls + Len(chunks))

\* the invocations that return normally
Delivered(chunks) ==
  IF Throws(chunks) THEN SubSeq(chunks, 1, failAt - calls - 1) ELSE chunks

\* A step of the call that invokes the sink once per chunk: segment is the
\* step's name in the log, thenPc the position after it, inNoexcept tells
\* whether the invocations are made inside a noexcept function (an exception
\* leaving it calls std::terminate)
Write(chunks, segment, thenPc, inNoexcept) ==
  LET bytes == Flatten(Delivered(chunks), 1, Len(Delivered(chunks)))
  IN /\ out'   = out \o bytes
     /\ calls' = IF Throws(chunks) THEN failAt ELSE calls + Len(chunks)
     /\ log'   = Append(log, [segment |-> segment,
                              from    |-> Len(out) + 1,
                              to      |-> Len(out) + Len(bytes),
                              bits    |-> buffer.numBits,
                              thrown  |-> Throws(chunks)])
     /\ pc'    = IF Throws(chunks) THEN "done" ELSE thenPc
     /\ result' = IF Throws(chunks)
                    THEN (IF inNoexcept THEN "terminate" ELSE "throw")
                    ELSE IF thenPc = "done" THEN "true" ELSE result

\* ------------------------------------------------------------------------
\* writeJpegQuality
\* ------------------------------------------------------------------------

SampleVars == <<Y, Cb, Cr, undefinedBehaviour>>

\* std::array<std::array<float, 8>, 8> Y, Cb, Cr: not initialized
Indeterminate == [n \in 0..63 |-> Undefined]

UrlVars == <<urlBase, absolute_url, url_s, image_url>>

BitVars == <<ops, applied, clearWriter>>

BlockVars == <<blockIn, lookups>>

TableVars == <<tableIn, tableOut>>

HttpVars == <<socket, buffer_, parsed, callback, returned>>

\* no Url has been constructed
NoUrl ==
  [thrown |-> FALSE, url_ |-> <<>>, protocol_ |-> <<>>, host_ |-> <<>>,
   path_ |-> <<>>, query_ |-> <<>>, path_and_query_ |-> <<>>]

\* no Url is in use
UrlIdle ==
  /\ urlBase = <<>> /\ url_s = <<>>
  /\ absolute_url = NoUrl /\ image_url = NoUrl

\* no second writer is in use
BitIdle ==
  /\ ops = <<>> /\ applied = <<>>
  /\ clearWriter = [data |-> Zero32, numBits |-> 0, chunks |-> <<>>]

\* encode_block is called by the encode call only
BlockIdle == blockIn = <<>> /\ lookups = {}

\* no table builder is called on its own
TableIdle == tableIn = <<>> /\ tableOut = <<>>

\* HttpHeaderParser::parsed = {}
NothingParsed == [status_code |-> 0, length |-> 0, received_bytes |-> 0]

\* no HttpSocket is in use
HttpIdle ==
  /\ socket = <<>> /\ buffer_ = <<>> /\ callback = <<>>
  /\ parsed = NothingParsed /\ returned = NothingParsed

Init ==
  /\ pc = "start"
  /\ \/ args \in PlainCalls /\ failAt = 0
     \/ args \in LongCommentCalls /\ failAt = 0
     \/ args \in ThrowingSinkCalls /\ failAt \in 1..MaxFailAt
  /\ downsample = args.downsample
  /\ quantLuminance = <<>>
  /\ quantChrominance = <<>>
  /\ buffer = [data |-> Zero32, numBits |-> 0]
  /\ out = <<>>
  /\ calls = 0
  /\ result = "none"
  /\ mcuX = 0 /\ mcuY = 0 /\ blockX = 0 /\ blockY = 0
  /\ lastYDC = 0 /\ lastCbDC = 0 /\ lastCrDC = 0
  /\ blockNo = 0
  /\ log = <<>>
  /\ Y = Indeterminate /\ Cb = Indeterminate /\ Cr = Indeterminate
  /\ undefinedBehaviour = FALSE
  /\ UrlIdle
  /\ BitIdle
  /\ BlockIdle
  /\ TableIdle
  /\ HttpIdle

\* the flag left as the caller gave it
DownsampleKept(isRGB, ds) == ds

\* if (!isRGB) downsample = false
DownsampleFix(isRGB, ds) == IF ~isRGB THEN FALSE ELSE ds

\* the quality check of line 225
QualityAccepted(quality_) == quality_ > 1 /\ quality_ <= 100

\* the dimensions left unchecked
RejectedNullOnly(a) == a.pixelsNull

\* the checks of lines 231-235: a null pixel pointer, a zero dimension
Rejected(a) == a.pixelsNull \/ a.width = 0 \/ a.height = 0

\* writeJpegQuality up to the call of writeJpegIntern
Call ==
  /\ pc = "start"
  /\ downsample' = DownsampleFix(args.isRGB, args.downsample)
  /\ IF ~QualityAccepted(args.quality_)
       THEN /\ result' = "throw" /\ pc' = "done"
            /\ UNCHANGED <<quantLuminance, quantChrominance>>
       ELSE IF Rejected(args)
         THEN /\ result' = "false" /\ pc' = "done"
              /\ UNCHANGED <<quantLuminance, quantChrominance>>
         ELSE /\ quantLuminance' =
                   quant_table(DefaultQuantLuminance_A,
                               QualityFactor(args.quality_))
              /\ quantChrominance' =
                   quant_table(DefaultQuantChrominance_A,
                               QualityFactor(args.quality_))
              /\ pc' = "jfif"
              /\ UNCHANGED result
  /\ UNCHANGED <<args, failAt, SampleVars, UrlVars, BitVars, BlockVars,
                 TableVars, HttpVars,
                 buffer, out, calls, mcuX, mcuY,
                 blockX, blockY, lastYDC, lastCbDC, lastCrDC, blockNo, log>>

\* ------------------------------------------------------------------------
\* writeJpegIntern
\* ------------------------------------------------------------------------

numComponents == IF args.isRGB THEN 3 ELSE 1

HeaderJfif ==
  << 255, 216, 255, 224, 0, 16, 74, 70, 73, 70, 0, 1, 1, 0, 0, 1, 0, 1, 0, 0 >>

LoopVars == <<mcuX, mcuY, blockX, blockY, lastYDC, lastCbDC, lastCrDC, blockNo>>

Tables == <<downsample, quantLuminance, quantChrominance>>

\* the comment segment skipped
WriteHeaderJfifThenTables ==
  /\ pc = "jfif"
  /\ Write(PutBytes(NewWriter, HeaderJfif).chunks, "JFIF", "dqt", FALSE)
  /\ UNCHANGED <<args, failAt, SampleVars, UrlVars, BitVars, BlockVars,
                 TableVars, HttpVars,
                 Tables, buffer, LoopVars>>

\* bitWriter << HeaderJfif
WriteHeaderJfif ==
  /\ pc = "jfif"
  /\ Write(PutBytes(NewWriter, HeaderJfif).chunks, "JFIF",
           IF args.comment # <<>> THEN "comment" ELSE "dqt", FALSE)
  /\ UNCHANGED <<args, failAt, SampleVars, UrlVars, BitVars, BlockVars,
                 TableVars, HttpVars,
                 Tables, buffer, LoopVars>>

\* the comment segment, written if the comment is not empty
WriteComment ==
  /\ pc = "comment"
  /\ Write(PutBytes(AddMarker(NewWriter, 254, 2 + Len(args.comment)),
                    args.comment).chunks,
           "COM", "dqt", FALSE)
  /\ UNCHANGED <<args, failAt, SampleVars, UrlVars, BitVars, BlockVars,
                 TableVars, HttpVars,
                 Tables, buffer, LoopVars>>

\* the quantization tables
WriteDQT ==
  /\ pc = "dqt"
  /\ LET w0 == AddMarker(NewWriter, 219,
                         2 + (IF args.isRGB THEN 2 ELSE 1) * (1 + 8 * 8))
         w1 == PutBytes(PutByte(w0, 0), quantLuminance)
         w2 == IF args.isRGB THEN PutBytes(PutByte(w1, 1), quantChrominance)
                             ELSE w1
     IN Write(w2.chunks, "DQT", "sof0", FALSE)
  /\ UNCHANGED <<args, failAt, SampleVars, UrlVars, BitVars, BlockVars,
                 TableVars, HttpVars,
                 Tables, buffer, LoopVars>>

RECURSIVE FrameComponents(_, _)
\* the loop of lines 299-304, from component id on
FrameComponents(w, id) ==
  IF id > numComponents THEN w
  ELSE FrameComponents(
         PutByte(PutByte(PutByte(w, id),
                         IF id = 1 /\ downsample THEN 34 ELSE 17),
                 IF id = 1 THEN 0 ELSE 1),
         id + 1)

\* the image infos (SOF0)
WriteSOF0 ==
  /\ pc = "sof0"
  /\ LET w0 == AddMarker(NewWriter, 192, 2 + 6 + 3 * numComponents)
         w1 == PutByte(w0, 8)
         w2 == PutByte(PutByte(w1, Shr(args.height, 8)),
                       BitAnd(args.height, 255))
         w3 == PutByte(PutByte(w2, Shr(args.width, 8)),
                       BitAnd(args.width, 255))
         w4 == PutByte(w3, numComponents)
     IN Write(FrameComponents(w4, 1).chunks, "SOF0", "dht", FALSE)
  /\ UNCHANGED <<args, failAt, SampleVars, UrlVars, BitVars, BlockVars,
                 TableVars, HttpVars,
                 Tables, buffer, LoopVars>>

\* 1 + 16 + 12 + 1 + 16 + 162
HuffmanLen == 1 + 16 + 12 + 1 + 16 + 162

\* the Huffman tables (DHT)
WriteDHT ==
  /\ pc = "dht"
  /\ LET w0 == AddMarker(NewWriter, 196,
                         IF args.isRGB THEN 2 + HuffmanLen + HuffmanLen
                                       ELSE 2 + HuffmanLen)
         w1 == PutBytes(PutBytes(PutByte(w0, 0), DcLuminanceCodesPerBitsize),
                        DcLuminanceValues)
         w2 == PutBytes(PutBytes(PutByte(w1, 16), AcLuminanceCodesPerBitsize),
                        AcLuminanceValues)
         w3 == PutBytes(PutBytes(PutByte(w2, 1), DcChrominanceCodesPerBitsize),
                        DcChrominanceValues)
         w4 == PutBytes(PutBytes(PutByte(w3, 17), AcChrominanceCodesPerBitsize),
                        AcChrominanceValues)
     IN Write((IF args.isRGB THEN w4 ELSE w2).chunks, "DHT", "sos", FALSE)
  /\ UNCHANGED <<args, failAt, SampleVars, UrlVars, BitVars, BlockVars,
                 TableVars, HttpVars,
                 Tables, buffer, LoopVars>>

RECURSIVE ScanComponents(_, _)
\* the loop of lines 341-344, from component id on
ScanComponents(w, id) ==
  IF id > numComponents THEN w
  ELSE ScanComponents(PutByte(PutByte(w, id), IF id = 1 THEN 0 ELSE 17),
                      id + 1)

Spectral == << 0, 63, 0 >>

\* the start of scan (SOS), and the initialisation of the MCU loops
WriteSOS ==
  /\ pc = "sos"
  /\ LET w0 == AddMarker(NewWriter, 218, 2 + 1 + 2 * numComponents + 3)
         w1 == ScanComponents(PutByte(w0, numComponents), 1)
     IN Write(PutBytes(w1, Spectral).chunks, "SOS",
              IF 0 < args.height /\ 0 < args.width THEN "Y" ELSE "flush",
              FALSE)
  /\ mcuX' = 0 /\ mcuY' = 0 /\ blockX' = 0 /\ blockY' = 0
  /\ lastYDC' = 0 /\ lastCbDC' = 0 /\ lastCrDC' = 0
  /\ UNCHANGED <<args, failAt, SampleVars, UrlVars, BitVars, BlockVars,
                 TableVars, HttpVars,
                 Tables, buffer, blockNo>>

\* 8 * sampling
mcuSize == 8 * (IF downsample THEN 2 ELSE 1)

\* the writer at the start of a step: the buffer, and no invocation made yet
Writer == [data |-> buffer.data, numBits |-> buffer.numBits, chunks |-> <<>>]

\* BitWriter::buffer after a step that ran the writer to w
BufferAfter(w, chunks) ==
  IF Throws(chunks) THEN buffer ELSE [data |-> w.data, numBits |-> w.numBits]

\* the position after the last block of an MCU: the next iteration of the
\* loops over mcuX and mcuY, or the flush after them
PcAfterMcu ==
  IF mcuX + mcuSize < args.width \/ mcuY + mcuSize < args.height
    THEN "Y" ELSE "flush"

\* the MCUs taken column by column
NextMcuColumnFirst ==
  /\ mcuY' = IF mcuY + mcuSize < args.height THEN mcuY + mcuSize ELSE 0
  /\ mcuX' = IF mcuY + mcuSize < args.height THEN mcuX ELSE mcuX + mcuSize
  /\ blockX' = 0
  /\ blockY' = 0

NextMcu ==
  /\ mcuX' = IF mcuX + mcuSize < args.width THEN mcuX + mcuSize ELSE 0
  /\ mcuY' = IF mcuX + mcuSize < args.width THEN mcuY ELSE mcuY + mcuSize
  /\ blockX' = 0
  /\ blockY' = 0

\* one iteration of the loops over blockY and blockX: encode a Y block
\* the block the next call of encode_block works on
Block == Coefficients(args.image, blockNo)

\* the effect of a call of encode_block that returned r = [w, DC], except
\* for the lastDC register it is assigned to
Encoded(r, thenPc) ==
  /\ Write(r.w.chunks, "block", thenPc, TRUE)
  /\ buffer' = BufferAfter(r.w, r.w.chunks)
  /\ blockNo' = blockNo + 1

\* the last iteration of the loops over blockY and blockX
lastOfY == blockX + 8 >= mcuSize /\ blockY + 8 >= mcuSize

\* one iteration of the loops over blockY and blockX: encode a Y block
EncodeYBlock(r) ==
  /\ Encoded(r, IF ~lastOfY THEN "Y"
                ELSE IF ~args.isRGB THEN PcAfterMcu ELSE "Cb")
  /\ lastYDC' = r.DC
  /\ IF ~lastOfY
       THEN /\ blockX' = IF blockX + 8 < mcuSize THEN blockX + 8 ELSE 0
            /\ blockY' = IF blockX + 8 < mcuSize THEN blockY ELSE blockY + 8
            /\ UNCHANGED <<mcuX, mcuY>>
       ELSE IF ~args.isRGB THEN NextMcu
       ELSE UNCHANGED <<mcuX, mcuY, blockX, blockY>>

EncodeY ==
  /\ pc = "Y"
  /\ EncodeYBlock(encode_block(Writer, TRUE, Block.DC, Block.quantized,
                               lastYDC))
  /\ UNCHANGED <<args, failAt, SampleVars, UrlVars, BitVars, BlockVars,
                 TableVars, HttpVars,
                 Tables, lastCbDC, lastCrDC>>

EncodeCbBlock(r) ==
  /\ Encoded(r, "Cr")
  /\ lastCbDC' = r.DC

\* encode the Cb block of the MCU
EncodeCb ==
  /\ pc = "Cb"
  /\ EncodeCbBlock(encode_block(Writer, FALSE, Block.DC, Block.quantized,
                                lastCbDC))
  /\ UNCHANGED <<args, failAt, SampleVars, UrlVars, BitVars, BlockVars,
                 TableVars, HttpVars,
                 Tables, mcuX, mcuY, blockX, blockY,
                 lastYDC, lastCrDC>>

EncodeCrBlock(r) ==
  /\ Encoded(r, PcAfterMcu)
  /\ lastCrDC' = r.DC

\* encode the Cr block of the MCU, the last of the MCU
EncodeCr ==
  /\ pc = "Cr"
  /\ EncodeCrBlock(encode_block(Writer, FALSE, Block.DC, Block.quantized,
                                lastCrDC))
  /\ NextMcu
  /\ UNCHANGED <<args, failAt, SampleVars, UrlVars, BitVars, BlockVars,
                 TableVars, HttpVars,
                 Tables, lastYDC, lastCbDC>>

\* bitWriter.flush()
Flushed(w) ==
  /\ Write(w.chunks, "flush", "eoi", FALSE)
  /\ buffer' = BufferAfter(w, w.chunks)

Flush ==
  /\ pc = "flush"
  /\ Flushed(FlushBits(Writer))
  /\ UNCHANGED <<args, failAt, SampleVars, UrlVars, BitVars, BlockVars,
                 TableVars, HttpVars,
                 Tables, LoopVars>>

\* bitWriter << 0xFF_bn << 0xD9_bn; return true
WriteEOI ==
  /\ pc = "eoi"
  /\ Write(PutByte(PutByte(NewWriter, 255), 217).chunks, "EOI", "done", FALSE)
  /\ UNCHANGED <<args, failAt, SampleVars, UrlVars, BitVars, BlockVars,
                 TableVars, HttpVars,
                 Tables, buffer, LoopVars>>

Next ==
  \/ Call
  \/ WriteHeaderJfif
  \/ WriteComment
  \/ WriteDQT
  \/ WriteSOF0
  \/ WriteDHT
  \/ WriteSOS
  \/ EncodeY
  \/ EncodeCb
  \/ EncodeCr
  \/ Flush
  \/ WriteEOI

Spec == Init /\ [][Next]_vars

\* ------------------------------------------------------------------------
\* The sampling of one MCU (lines 372-461), taken as a function of the
\* image and of the position of the MCU loops: the call is past the
\* headers, at any MCU of the image.  The writer and the sink take no part
\* in it and are left as constructed; the sample arrays hold nothing this
\* iteration has written.
\* ------------------------------------------------------------------------

PixelImages ==
  { [kind |-> "flat", colour |-> <<200, 13, 77>>],
    [kind |-> "flat", colour |-> <<255, 255, 255>>],
    [kind |-> "ramp", colour |-> <<0, 0, 0>>] }

\* <<width, height>>
SampleSizes ==
  { <<1, 1>>, <<5, 3>>, <<17, 9>>, <<33, 40>>, <<40000, 40000>>,
    <<65535, 65535>> }

SampleCalls ==
  { Arguments(FALSE, s[1], s[2], d, c, 50, <<>>, im) :
      s \in SampleSizes, d \in BOOLEAN, c \in BOOLEAN, im \in PixelImages }

\* values of a loop variable that runs 0, step, 2 * step, ... below size:
\* the first, the middle one and the last
Origins(size, step) ==
  { 0, ((size \div 2) \div step) * step, ((size - 1) \div step) * step }

\* what the build makes of an undefined sample
WildSamples == { -128 * Fix, 127 * Fix }

SampleInit ==
  /\ pc = "sampleY"
  /\ args \in SampleCalls
  /\ failAt = 0
  /\ downsample = DownsampleFix(args.isRGB, args.downsample)
  /\ quantLuminance = quant_table(DefaultQuantLuminance_A,
                                  QualityFactor(args.quality_))
  /\ quantChrominance = quant_table(DefaultQuantChrominance_A,
                                    QualityFactor(args.quality_))
  /\ buffer = [data |-> Zero32, numBits |-> 0]
  /\ out = <<>>
  /\ calls = 0
  /\ result = "none"
  /\ mcuX \in Origins(args.width, mcuSize)
  /\ mcuY \in Origins(args.height, mcuSize)
  /\ blockX = 0 /\ blockY = 0
  /\ lastYDC = 0 /\ lastCbDC = 0 /\ lastCrDC = 0
  /\ blockNo = 0
  /\ log = <<>>
  /\ Y = Indeterminate /\ Cb = Indeterminate /\ Cr = Indeterminate
  /\ undefinedBehaviour = FALSE
  /\ UrlIdle
  /\ BitIdle
  /\ BlockIdle
  /\ TableIdle
  /\ HttpIdle

\* the array with its undefined entries as the build happens to read them
Resolved(block, wild) ==
  [n \in 0..63 |-> IF block[n] = Undefined THEN wild ELSE block[n]]

\* the process is ended by the operating system
Crashed ==
  /\ pc' = "done"
  /\ result' = "crash"
  /\ undefinedBehaviour' = TRUE
  /\ UNCHANGED <<Y, Cb, Cr, mcuX, mcuY, blockX, blockY>>

\* the loops of lines 375-404 have filled Y (and Cb, Cr for YCbCr444) with
\* y, cb, cr, and Y is handed to encode_block (line 407); crash and wild are
\* what the build makes of an undefined value, if there is one
SampledY(y, cb, cr, crash, wild) ==
  IF ~Defined(y) /\ crash THEN Crashed
  ELSE /\ Y' = Resolved(y, wild)
       /\ Cb' = IF args.isRGB /\ ~downsample THEN Resolved(cb, wild) ELSE Cb
       /\ Cr' = IF args.isRGB /\ ~downsample THEN Resolved(cr, wild) ELSE Cr
       /\ undefinedBehaviour' = (undefinedBehaviour \/ ~Defined(y))
       /\ result' = result
       /\ IF ~lastOfY
            THEN /\ blockX' = IF blockX + 8 < mcuSize THEN blockX + 8 ELSE 0
                 /\ blockY' = IF blockX + 8 < mcuSize THEN blockY
                                                      ELSE blockY + 8
                 /\ pc' = "sampleY"
            ELSE /\ UNCHANGED <<blockX, blockY>>
                 /\ pc' = IF args.isRGB THEN "sampleCbCr" ELSE "sampled"
       /\ UNCHANGED <<mcuX, mcuY>>

\* one iteration of the loops over blockY and blockX, up to the call of
\* encode_block<true>
SampleY ==
  /\ pc = "sampleY"
  /\ \E crash \in BOOLEAN, wild \in WildSamples :
       SampledY(YBlock(args.image, args.width, args.height, args.isRGB,
                       mcuX + blockX, mcuY + blockY),
                CbBlock(args.image, args.width, args.height,
                        mcuX + blockX, mcuY + blockY),
                CrBlock(args.image, args.width, args.height,
                        mcuX + blockX, mcuY + blockY),
                crash, wild)
  /\ UNCHANGED <<args, failAt, Tables, buffer, out, calls, lastYDC, lastCbDC,
                 lastCrDC, blockNo, log, UrlVars, BitVars, BlockVars,
                 TableVars, HttpVars>>

\* Cb and Cr are handed to encode_block<false> (lines 465-466)
SampledCbCr(cb, cr, crash, wild) ==
  IF ~(Defined(cb) /\ Defined(cr)) /\ crash THEN Crashed
  ELSE /\ Cb' = Resolved(cb, wild)
       /\ Cr' = Resolved(cr, wild)
       /\ undefinedBehaviour' =
            (undefinedBehaviour \/ ~(Defined(cb) /\ Defined(cr)))
       /\ result' = result
       /\ pc' = "sampled"
       /\ UNCHANGED <<Y, mcuX, mcuY, blockX, blockY>>

\* the YCbCr420 pass of lines 419-461, if downsample, up to the calls of
\* encode_block<false>
SampleCbCr ==
  /\ pc = "sampleCbCr"
  /\ \E crash \in BOOLEAN, wild \in WildSamples :
       SampledCbCr(IF downsample
                     THEN CbBlock420(args.image, args.width, args.height,
                                     mcuX, mcuY)
                     ELSE Cb,
                   IF downsample
                     THEN CrBlock420(args.image, args.width, args.height,
                                     mcuX, mcuY)
                     ELSE Cr,
                   crash, wild)
  /\ UNCHANGED <<args, failAt, Tables, buffer, out, calls, lastYDC, lastCbDC,
                 lastCrDC, blockNo, log, UrlVars, BitVars, BlockVars,
                 TableVars, HttpVars>>

SampleNext == SampleY \/ SampleCbCr

SampleSpec == SampleInit /\ [][SampleNext]_vars

\* ------------------------------------------------------------------------
\* Socket::Url (url.h).  A string is a sequence of one-character strings.
\* ------------------------------------------------------------------------

\* tolower
ToLower(c) ==
  CASE c = "A" -> "a"
    [] c = "B" -> "b"
    [] c = "H" -> "h"
    [] c = "P" -> "p"
    [] c = "Q" -> "q"
    [] c = "S" -> "s"
    [] c = "T" -> "t"
    [] OTHER   -> c

\* utils::startsWith(str, prefix)
startsWith(str, prefix) ==
  Len(str) >= Len(prefix) /\ SubSeq(str, 1, Len(prefix)) = prefix

\* std::search(str.begin(), str.end(), ...): the first position at which
\* pattern occurs in str, Len(str) + 1 (end) if there is none
Search(str, pattern) ==
  IF \E i \in 1..(Len(str) + 1 - Len(pattern)) :
       SubSeq(str, i, i + Len(pattern) - 1) = pattern
    THEN CHOOSE i \in 1..(Len(str) + 1 - Len(pattern)) :
           /\ SubSeq(str, i, i + Len(pattern) - 1) = pattern
           /\ \A j \in 1..(i - 1) :
                SubSeq(str, j, j + Len(pattern) - 1) # pattern
    ELSE Len(str) + 1

\* std::find(first, str.end(), c): the first position from first on that
\* holds c, Len(str) + 1 (end) if there is none
Find(str, first, c) ==
  IF \E i \in first..Len(str) : str[i] = c
    THEN CHOOSE i \in first..Len(str) :
           str[i] = c /\ \A j \in first..(i - 1) : str[j] # c
    ELSE Len(str) + 1

\* std::transform(first, last, first, tolower): in place on [first, last)
Transform(str, first, last) ==
  [i \in 1..Len(str) |->
     IF first <= i /\ i < last THEN ToLower(str[i]) ELSE str[i]]

\* the exception leaving Url::parse or Url::from_relative
Thrown == [NoUrl EXCEPT !.thrown = TRUE]

\* Url::parse from line 86 on: lowered is url_ after line 85, prot_i the
\* position of "://" in it, path_i the first '/' after it
ParsedHost(lowered, prot_i, path_i) ==
  Transform(lowered, prot_i + 3, path_i)

ParsedFields(u, prot_i, path_i, query_i) ==
  [thrown          |-> FALSE,
   url_            |-> u,
   protocol_       |-> SubSeq(u, 1, prot_i - 1),
   host_           |-> SubSeq(u, prot_i + 3, path_i - 1),
   path_           |-> SubSeq(u, path_i, query_i - 1),
   query_          |-> SubSeq(u, IF query_i # Len(u) + 1 THEN query_i + 1
                                                         ELSE query_i,
                              Len(u)),
   path_and_query_ |-> SubSeq(u, path_i, Len(u))]

ParsedFrom(lowered, prot_i, path_i) ==
  ParsedFields(ParsedHost(lowered, prot_i, path_i), prot_i, path_i,
               Find(lowered, path_i, "?"))

ParsedAt(str, prot_i) ==
  ParsedFrom(Transform(str, 1, prot_i), prot_i, Find(str, prot_i + 3, "/"))

\* Url::Url(std::string_view url_s), that is Url::parse(url_s)
parse(str) ==
  IF Search(str, <<":", "/", "/">>) = Len(str) + 1
    THEN Thrown
    ELSE ParsedAt(str, Search(str, <<":", "/", "/">>))

\* the test for "/" made before the test for "//"
from_relative_slash_first(absolute, str) ==
  IF startsWith(str, <<"h", "t", "t", "p">>) THEN parse(str)
  ELSE IF startsWith(str, <<"/">>)
    THEN parse(absolute.protocol_ \o <<":", "/", "/">> \o absolute.host_
                 \o str)
  ELSE IF startsWith(str, <<"/", "/">>)
    THEN parse(absolute.protocol_ \o <<":">> \o str)
  ELSE Thrown

\* Url::from_relative(absolute_url, url_s)
from_relative(absolute, str) ==
  IF startsWith(str, <<"h", "t", "t", "p">>) THEN parse(str)
  ELSE IF startsWith(str, <<"/", "/">>)
    THEN parse(absolute.protocol_ \o <<":">> \o str)
  ELSE IF startsWith(str, <<"/">>)
    THEN parse(absolute.protocol_ \o <<":", "/", "/">> \o absolute.host_
                 \o str)
  ELSE Thrown

\* Url::full()
full(url) == url.url_

\* the strings the Urls are made from
UrlHeads ==
  { <<>>, <<"h", "t", "t", "p">>, <<"h", "t", "t", "p", "s">>,
    <<"H", "T", "T", "P">>, <<"h", "t">>, <<"/">>, <<"/", "/">>,
    <<"a">>, <<"?">> }

UrlSeparators == { <<>>, <<":", "/", "/">>, <<":", "/">>, <<"/">> }

UrlHosts == { <<>>, <<"a", "b">>, <<"A", "b">> }

UrlTails ==
  { <<>>, <<"/", "P">>, <<"/", "p", "?", "Q">>, <<"?", "q">>,
    <<"/", "a", ":", "/", "/", "B">> }

UrlStrings ==
  { h \o s \o m \o t :
      h \in UrlHeads, s \in UrlSeparators, m \in UrlHosts, t \in UrlTails }

UrlBases ==
  { <<>>, <<"a", "b">>,
    <<"h", "t", "t", "p", "s", ":", "/", "/", "a", "b">>,
    <<"H", "t", "t", "p", ":", "/", "/", "B", "a", "/", "P", "?", "Q">>,
    <<"s", ":", "/", "/", "/", "p">> }

\* the encoder takes no part in the operations on Urls and bit writers; its
\* variables stay as constructed
EncoderVars ==
  <<args, failAt, downsample, quantLuminance, quantChrominance, buffer, out,
    calls, result, mcuX, mcuY, blockX, blockY, lastYDC, lastCbDC, lastCrDC,
    blockNo, log, Y, Cb, Cr, undefinedBehaviour>>

EncoderIdle ==
  /\ args = Arguments(TRUE, 0, 0, FALSE, FALSE, 0, <<>>, <<>>)
  /\ failAt = 0
  /\ downsample = FALSE
  /\ quantLuminance = <<>>
  /\ quantChrominance = <<>>
  /\ buffer = [data |-> Zero32, numBits |-> 0]
  /\ out = <<>>
  /\ calls = 0
  /\ result = "none"
  /\ mcuX = 0 /\ mcuY = 0 /\ blockX = 0 /\ blockY = 0
  /\ lastYDC = 0 /\ lastCbDC = 0 /\ lastCrDC = 0
  /\ blockNo = 0
  /\ log = <<>>
  /\ Y = Indeterminate /\ Cb = Indeterminate /\ Cr = Indeterminate
  /\ undefinedBehaviour = FALSE

UrlInit ==
  /\ pc = "construct"
  /\ urlBase \in UrlBases
  /\ url_s \in UrlStrings
  /\ absolute_url = NoUrl
  /\ image_url = NoUrl
  /\ EncoderIdle
  /\ BitIdle
  /\ BlockIdle
  /\ TableIdle
  /\ HttpIdle

\* Url absolute_url{urlBase}
Construct ==
  /\ pc = "construct"
  /\ absolute_url' = parse(urlBase)
  /\ pc' = IF parse(urlBase).thrown THEN "done" ELSE "from_relative"
  /\ UNCHANGED <<urlBase, url_s, image_url, EncoderVars, BitVars, BlockVars,
                 TableVars, HttpVars>>

\* auto image_url = Url::from_relative(absolute_url, url_s)
FromRelative ==
  /\ pc = "from_relative"
  /\ image_url' = from_relative(absolute_url, url_s)
  /\ pc' = "done"
  /\ UNCHANGED <<urlBase, url_s, absolute_url, EncoderVars, BitVars, BlockVars,
                 TableVars, HttpVars>>

UrlNext == Construct \/ FromRelative

UrlSpec == UrlInit /\ [][UrlNext]_vars

\* ------------------------------------------------------------------------
\* BitWriter on its own: a sequence of operator<<(BitCode) and flush calls
\* given to a BitWriter<> (buffer, out) and to a BitWriter<true>
\* (clearWriter)
\* ------------------------------------------------------------------------

\* the longest sequence of operations
MaxOps == 3

BitLengths == { 1, 3, 7, 8, 16 }

\* codes of numBits bits: all zeros, all ones, 1010...
BitPatterns(numBits) ==
  { 0, Pow2(numBits) - 1, (2 * (Pow2(numBits) - 1)) \div 3 }

BitOps ==
  UNION { { [flush |-> FALSE, bc |-> BitCode(c, n)] : c \in BitPatterns(n) } :
          n \in BitLengths }
    \cup { [flush |-> TRUE, bc |-> BitCode(127, 7)] }

BitInit ==
  /\ pc = "bits"
  /\ ops \in UNION { [1..n -> BitOps] : n \in 1..MaxOps }
  /\ applied = <<>>
  /\ clearWriter = [data |-> Zero32, numBits |-> 0, chunks |-> <<>>]
  /\ EncoderIdle
  /\ UrlIdle
  /\ BlockIdle
  /\ TableIdle
  /\ HttpIdle

\* the BitWriter<true> with the bytes it has written so far
ClearWriterAfter(w) ==
  [w EXCEPT !.chunks = clearWriter.chunks \o w.chunks]

\* both writers after the next operation
BitsWritten(w, wClear) ==
  /\ buffer' = [data |-> w.data, numBits |-> w.numBits]
  /\ out' = out \o Flatten(w.chunks, 1, Len(w.chunks))
  /\ calls' = calls + Len(w.chunks)
  /\ clearWriter' = ClearWriterAfter(wClear)
  /\ applied' = Append(applied, Head(ops))
  /\ ops' = Tail(ops)
  /\ pc' = IF Tail(ops) = <<>> THEN "done" ELSE "bits"

\* bitWriter << BitCode(code, numBits)
PutBits ==
  /\ pc = "bits"
  /\ ~Head(ops).flush
  /\ BitsWritten(PutBitCode(Writer, Head(ops).bc),
                 PutBitCodeT(TRUE, [clearWriter EXCEPT !.chunks = <<>>],
                             Head(ops).bc))
  /\ UNCHANGED <<args, failAt, SampleVars, UrlVars, BlockVars,
                 TableVars, HttpVars, Tables,
                 LoopVars, result, log>>

\* flush() of a BitWriter<true>
FlushBitsClear(w) == PutBitCodeT(TRUE, w, BitCode(127, 7))

\* bitWriter.flush()
FlushCall ==
  /\ pc = "bits"
  /\ Head(ops).flush
  /\ BitsWritten(FlushBits(Writer),
                 FlushBitsClear([clearWriter EXCEPT !.chunks = <<>>]))
  /\ UNCHANGED <<args, failAt, SampleVars, UrlVars, BlockVars,
                 TableVars, HttpVars, Tables,
                 LoopVars, result, log>>

BitNext == PutBits \/ FlushCall

BitSpec == BitInit /\ [][BitNext]_vars

\* ------------------------------------------------------------------------
\* encode_block on its own, from the quantized coefficients on (lines
\* 179-215): blockIn holds the quantized block, the channel's previous DC
\* and the number of bits pending in the writer
\* ------------------------------------------------------------------------

\* zigzag positions that hold a non-zero coefficient
BlockPositions == { 1, 2, 16, 17, 18, 33, 49, 62, 63 }

BlockValues == { 1, -1, 2, -3, 255, 1023, -1023 }

\* quantized[1..63] with one or two non-zero coefficients (and runs of up
\* to 48 zeros before them), with none, and with twenty in a row
BlockVectors ==
  { [ZeroAC EXCEPT ![p] = v] :
      p \in { r \in BlockPositions : r < 50 }, v \in BlockValues }
    \cup { [ZeroAC EXCEPT ![p[1]] = v[1], ![p[2]] = v[2]] :
             p \in { r \in BlockPositions \X BlockPositions :
                       r[1] < r[2] /\ r[2] - r[1] < 48 },
             v \in {1, 255, -1023} \X {-1, 2, 1023} }
    \cup { ZeroAC, [i \in 1..63 |-> IF i <= 20 THEN (i % 6) - 7 ELSE 0] }

BlockInit ==
  /\ pc = "block"
  /\ blockIn \in [luminance : BOOLEAN, DC : {0, 5, -1024}, lastDC : {0, 3},
                   quantized : BlockVectors, pending : {0, 3}]
  /\ args = Arguments(TRUE, 0, 0, FALSE, FALSE, 0, <<>>, <<>>)
  /\ failAt = 0
  /\ downsample = FALSE
  /\ quantLuminance = <<>>
  /\ quantChrominance = <<>>
  /\ buffer = [data |-> [hi |-> 0, lo |-> IF blockIn.pending = 0 THEN 0 ELSE 5],
               numBits |-> blockIn.pending]
  /\ out = <<>>
  /\ calls = 0
  /\ result = "none"
  /\ mcuX = 0 /\ mcuY = 0 /\ blockX = 0 /\ blockY = 0
  /\ lastYDC = IF blockIn.luminance THEN blockIn.lastDC ELSE 0
  /\ lastCbDC = IF blockIn.luminance THEN 0 ELSE blockIn.lastDC
  /\ lastCrDC = 0
  /\ blockNo = 0
  /\ log = <<>>
  /\ Y = Indeterminate /\ Cb = Indeterminate /\ Cr = Indeterminate
  /\ undefinedBehaviour = FALSE
  /\ lookups = {}
  /\ UrlIdle
  /\ BitIdle
  /\ TableIdle
  /\ HttpIdle

\* the writer and the returned DC after encode_block
BlockEncoded(r) ==
  /\ buffer' = [data |-> r.w.data, numBits |-> r.w.numBits]
  /\ out' = out \o Flatten(r.w.chunks, 1, Len(r.w.chunks))
  /\ calls' = calls + Len(r.w.chunks)
  /\ lastYDC' = IF blockIn.luminance THEN r.DC ELSE lastYDC
  /\ lastCbDC' = IF blockIn.luminance THEN lastCbDC ELSE r.DC
  /\ blockNo' = blockNo + 1
  /\ lookups' = r.lookups
  /\ pc' = "done"

\* lastYDC = encode_block<true>(bitWriter, Y, scaled_luminance, lastYDC)
EncodeLuminance ==
  /\ pc = "block"
  /\ blockIn.luminance
  /\ BlockEncoded(encode_block(Writer, TRUE, blockIn.DC, blockIn.quantized,
                               lastYDC))
  /\ UNCHANGED <<args, failAt, SampleVars, UrlVars, BitVars, blockIn,
                 TableVars, HttpVars,
                 Tables, mcuX, mcuY, blockX, blockY, lastCrDC, result, log>>

\* lastCbDC = encode_block<false>(bitWriter, Cb, scaled_chrominance, lastCbDC)
EncodeChrominance ==
  /\ pc = "block"
  /\ ~blockIn.luminance
  /\ BlockEncoded(encode_block(Writer, FALSE, blockIn.DC, blockIn.quantized,
                               lastCbDC))
  /\ UNCHANGED <<args, failAt, SampleVars, UrlVars, BitVars, blockIn,
                 TableVars, HttpVars,
                 Tables, mcuX, mcuY, blockX, blockY, lastCrDC, result, log>>

BlockNext == EncodeLuminance \/ EncodeChrominance

BlockSpec == BlockInit /\ [][BlockNext]_vars

\* ------------------------------------------------------------------------
\* generateHuffmanTable called on its own, with any numbers of codes per
\* bit size: tableIn = [numCodes, values], tableOut the array it returns.
\* The function has no path that does not return an array.
\* ------------------------------------------------------------------------

\* the bit sizes that are given codes, the others have none
HuffmanSizesUsed == {1, 2, 3, 15, 16}

\* the largest number of codes of one bit size
MaxCodesPerSize == 3

\* numCodes[1..16] with the given numbers of codes for the sizes used
CodesPerBitsize(counts) ==
  [numBits \in 1..16 |->
     IF numBits \in HuffmanSizesUsed THEN counts[numBits] ELSE 0]

RECURSIVE TotalCodes(_, _, _)
\* numCodes[lo] + ... + numCodes[hi]
TotalCodes(numCodes, lo, hi) ==
  IF lo > hi THEN 0
  ELSE IF lo = hi THEN numCodes[lo]
  ELSE TotalCodes(numCodes, lo, (lo + hi) \div 2)
       + TotalCodes(numCodes, (lo + hi) \div 2 + 1, hi)

\* the values 7, 8, ... for as many codes as numCodes asks for
ValuesFor(numCodes) == [k \in 1..TotalCodes(numCodes, 1, 16) |-> k + 6]

HuffmanInputs ==
  { [numCodes |-> CodesPerBitsize(counts),
     values   |-> ValuesFor(CodesPerBitsize(counts))] :
      counts \in [HuffmanSizesUsed -> 0..MaxCodesPerSize] }
  \cup
  { [numCodes |-> DcLuminanceCodesPerBitsize, values |-> DcLuminanceValues],
    [numCodes |-> AcLuminanceCodesPerBitsize, values |-> AcLuminanceValues],
    [numCodes |-> DcChrominanceCodesPerBitsize,
     values   |-> DcChrominanceValues],
    [numCodes |-> AcChrominanceCodesPerBitsize,
     values   |-> AcChrominanceValues] }

HuffmanInit ==
  /\ pc = "huffman"
  /\ tableIn \in HuffmanInputs
  /\ tableOut = <<>>
  /\ EncoderIdle
  /\ UrlIdle
  /\ BitIdle
  /\ BlockIdle
  /\ HttpIdle

\* std::array<BitCode, 256> generateHuffmanTable(numCodes, values)
GenerateHuffmanTable ==
  /\ pc = "huffman"
  /\ tableOut' = generateHuffmanTable(tableIn.numCodes, tableIn.values)
  /\ pc' = "done"
  /\ result' = "returned"
  /\ UNCHANGED <<tableIn, args, failAt, Tables, buffer, out, calls, LoopVars,
                 log, SampleVars, UrlVars, BitVars, BlockVars, HttpVars>>

HuffmanNext == GenerateHuffmanTable

HuffmanSpec == HuffmanInit /\ [][HuffmanNext]_vars

\* ------------------------------------------------------------------------
\* The codeword table on its own: tableIn = [value] is a magnitude,
\* tableOut the two entries codewords[+value] and codewords[-value] of the
\* array codewords_for_quantized_dct returns
\* ------------------------------------------------------------------------

CodewordInit ==
  /\ pc = "codewords"
  /\ tableIn \in [value : 1..(CodeWordLimit - 1)]
  /\ tableOut = <<>>
  /\ EncoderIdle
  /\ UrlIdle
  /\ BitIdle
  /\ BlockIdle
  /\ HttpIdle

\* codewords[+value] and codewords[-value]
Codewords ==
  /\ pc = "codewords"
  /\ tableOut' = [plus  |-> codewords_for_quantized_dct[tableIn.value],
                  minus |-> codewords_for_quantized_dct[-tableIn.value]]
  /\ pc' = "done"
  /\ UNCHANGED <<tableIn, EncoderVars, UrlVars, BitVars, BlockVars, HttpVars>>

CodewordNext == Codewords

CodewordSpec == CodewordInit /\ [][CodewordNext]_vars

\* ------------------------------------------------------------------------
\* encode_block on its own, from the samples on (lines 149-215): blockIn
\* holds the 64 samples of the block, the quality the tables were built
\* for and the channel's previous DC
\* ------------------------------------------------------------------------

\* the sign of cos((2 * x + 1) * u * pi / 16), which is never zero for u < 8
CosSign(x, u) ==
  IF ((2 * x + 1) * u) % 32 < 8 \/ ((2 * x + 1) * u) % 32 > 24 THEN 1 ELSE -1

\* the block of samples with the largest coefficient at frequency <<u, v>>,
\* and the one with the smallest: every sample is -128 or 127, whichever
\* has (or has not) the sign of the basis function
ExtremeBlock(u, v, sign) ==
  [n \in 0..63 |->
     IF CosSign(n % 8, u) * CosSign(n \div 8, v) = sign
       THEN 127 * Fix ELSE -128 * Fix]

ExtremeBlocks ==
  { ExtremeBlock(u, v, sign) : u \in 0..7, v \in 0..7, sign \in {1, -1} }

\* the DC of a block of samples -128 and of a block of samples 127 at
\* quality 100, and zero
ExtremeDCs == { -1024, 0, 1016 }

SampleQualities == { 2, 19, 50, 100 }

TransformInit ==
  /\ pc = "block"
  /\ blockIn \in [luminance : BOOLEAN, block64 : ExtremeBlocks,
                   quality_ : SampleQualities, lastDC : ExtremeDCs]
  /\ args = Arguments(FALSE, 8, 8, FALSE, ~blockIn.luminance,
                      blockIn.quality_, <<>>, <<>>)
  /\ failAt = 0
  /\ downsample = FALSE
  /\ quantLuminance =
       quant_table(DefaultQuantLuminance_A, QualityFactor(blockIn.quality_))
  /\ quantChrominance =
       quant_table(DefaultQuantChrominance_A, QualityFactor(blockIn.quality_))
  /\ buffer = [data |-> Zero32, numBits |-> 0]
  /\ out = <<>>
  /\ calls = 0
  /\ result = "none"
  /\ mcuX = 0 /\ mcuY = 0 /\ blockX = 0 /\ blockY = 0
  /\ lastYDC = IF blockIn.luminance THEN blockIn.lastDC ELSE 0
  /\ lastCbDC = IF blockIn.luminance THEN 0 ELSE blockIn.lastDC
  /\ lastCrDC = 0
  /\ blockNo = 0
  /\ log = <<>>
  /\ Y = Indeterminate /\ Cb = Indeterminate /\ Cr = Indeterminate
  /\ undefinedBehaviour = FALSE
  /\ lookups = {}
  /\ UrlIdle
  /\ BitIdle
  /\ TableIdle
  /\ HttpIdle

\* the rest of encode_block<luminance> after the quantization loop left q
EncodeQuantized(q, lastDC) ==
  BlockEncoded(encode_block(Writer, blockIn.luminance, q.DC, q.quantized,
                            lastDC))

\* lastYDC = encode_block<true>(bitWriter, Y, scaled_luminance, lastYDC)
TransformLuminance ==
  /\ pc = "block"
  /\ blockIn.luminance
  /\ EncodeQuantized(Quantized(blockIn.block64,
                               scaled_luminance(quantLuminance)), lastYDC)
  /\ UNCHANGED <<args, failAt, SampleVars, UrlVars, BitVars, blockIn,
                 TableVars, HttpVars,
                 Tables, mcuX, mcuY, blockX, blockY, lastCrDC, result, log>>

\* lastCbDC = encode_block<false>(bitWriter, Cb, scaled_chrominance, lastCbDC)
TransformChrominance ==
  /\ pc = "block"
  /\ ~blockIn.luminance
  /\ EncodeQuantized(Quantized(blockIn.block64,
                               scaled_chrominance(quantChrominance)), lastCbDC)
  /\ UNCHANGED <<args, failAt, SampleVars, UrlVars, BitVars, blockIn,
                 TableVars, HttpVars,
                 Tables, mcuX, mcuY, blockX, blockY, lastCrDC, result, log>>

TransformNext == TransformLuminance \/ TransformChrominance

TransformSpec == TransformInit /\ [][TransformNext]_vars

\* ------------------------------------------------------------------------
\* HttpHeaderParser (http_header_parser.h) and HttpSocket::receive (http.h).
\* A text is a sequence of characters.  socket = [response, body,
\* status_code, at]: the bytes the peer sends before it closes, of which
\* read() has returned the first at; body and status_code are what the
\* response was made of.
\* ------------------------------------------------------------------------

CR == "\r"

LF == "\n"

\* isspace, as the scanf directives use it
IsSpace(c) == c \in { " ", "\t", CR, LF }

Digits == << "0", "1", "2", "3", "4", "5", "6", "7", "8", "9" >>

IsDigit(c) == \E d \in 1..10 : Digits[d] = c

DigitValue(c) == (CHOOSE d \in 1..10 : Digits[d] = c) - 1

\* the first position from pos on that does not satisfy the class, Len + 1
\* if there is none
SkipSpace(text, pos) ==
  IF \E i \in pos..Len(text) : ~IsSpace(text[i])
    THEN CHOOSE i \in pos..Len(text) :
           ~IsSpace(text[i]) /\ \A j \in pos..(i - 1) : IsSpace(text[j])
    ELSE Len(text) + 1

SkipDigits(text, pos) ==
  IF \E i \in pos..Len(text) : ~IsDigit(text[i])
    THEN CHOOSE i \in pos..Len(text) :
           ~IsDigit(text[i]) /\ \A j \in pos..(i - 1) : IsDigit(text[j])
    ELSE Len(text) + 1

\* the first position from pos on that holds '\r' or '\n' (the end of a
\* %[^\r\n] conversion), Len + 1 if there is none
SkipToLineEnd(text, pos) ==
  IF \E i \in pos..Len(text) : text[i] \in {CR, LF}
    THEN CHOOSE i \in pos..Len(text) :
           text[i] \in {CR, LF} /\ \A j \in pos..(i - 1) : text[j] \notin {CR, LF}
    ELSE Len(text) + 1

RECURSIVE DecimalValue(_, _, _)
\* the number written by the digits text[lo..hi]
DecimalValue(text, lo, hi) ==
  IF lo > hi THEN 0
  ELSE 10 * DecimalValue(text, lo, hi - 1) + DigitValue(text[hi])

\* a %d or %lu conversion at pos: white space is skipped, then at least one
\* digit is needed (the texts here hold no sign and no number beyond int)
ScanNumber(text, pos) ==
  LET first == SkipSpace(text, pos)
      next  == SkipDigits(text, first)
  IN [matched |-> next > first,
      value   |-> DecimalValue(text, first, next - 1),
      next    |-> next]

RECURSIVE ScanFormat(_, _, _, _)
\* the ordinary characters and white-space directives fmt[k..] of a scanf
\* format matched against the text from pos on: the position after the
\* match, 0 if the text does not match
ScanFormat(text, pos, fmt, k) ==
  IF k > Len(fmt) THEN pos
  ELSE IF fmt[k] = " " THEN ScanFormat(text, SkipSpace(text, pos), fmt, k + 1)
  ELSE IF pos <= Len(text) /\ text[pos] = fmt[k]
    THEN ScanFormat(text, pos + 1, fmt, k + 1)
  ELSE 0

\* sscanf(..., fmt "%c", &backslashR) == 1 && backslashR == '\r'
ScanThenCR(text, pos, fmt) ==
  LET next == ScanFormat(text, pos, fmt, 1)
  IN next # 0 /\ next <= Len(text) /\ text[next] = CR

HttpVersion ==
  << "H", "T", "T", "P", "/", "1", ".", "1" >>

\* sscanf(first_line.begin(), "HTTP/1.1%c%d%c%1023[^\r\n]%c", ...): the
\* number of conversions made and the values they stored; the scan starts
\* at the first byte received and ends where the received bytes do
StatusLine(text) ==
  LET unset   == [count |-> 0, space1 |-> "", status_code |-> 0,
                  space2 |-> "", backslashR |-> ""]
      version == ScanFormat(text, 1, HttpVersion, 1)
      code    == ScanNumber(text, version + 1)
      desc    == SkipToLineEnd(text, code.next + 1)
  IN IF version = 0 \/ version > Len(text) THEN unset
     ELSE IF ~code.matched
       THEN [unset EXCEPT !.count = 1, !.space1 = text[version]]
     ELSE IF code.next > Len(text)
       THEN [unset EXCEPT !.count = 2, !.space1 = text[version],
                          !.status_code = code.value]
     ELSE IF desc = code.next + 1
       THEN [unset EXCEPT !.count = 3, !.space1 = text[version],
                          !.status_code = code.value,
                          !.space2 = text[code.next]]
     ELSE IF desc > Len(text)
       THEN [unset EXCEPT !.count = 4, !.space1 = text[version],
                          !.status_code = code.value,
                          !.space2 = text[code.next]]
     ELSE [count |-> 5, space1 |-> text[version], status_code |-> code.value,
           space2 |-> text[code.next], backslashR |-> text[desc]]

\* the condition of line 60, negated
StatusLineAccepted(l) ==
  /\ l.count = 5 /\ l.space1 = " " /\ l.space2 = " " /\ l.backslashR = CR
  /\ l.status_code >= 100 /\ l.status_code < 600

TransferEncodingIdentity ==
  << "T", "r", "a", "n", "s", "f", "e", "r", "-", "E", "n", "c", "o", "d",
     "i", "n", "g", " ", ":", " ", "i", "d", "e", "n", "t", "i", "t",
     "y" >>

ContentLength ==
  << "C", "o", "n", "t", "e", "n", "t", "-", "L", "e", "n", "g", "t", "h",
     " ", ":", " " >>

ContentTypeMultipart ==
  << "C", "o", "n", "t", "e", "n", "t", "-", "T", "y", "p", "e", " ", ":",
     " ", "m", "u", "l", "t", "i", "p", "a", "r", "t", "/", "b", "y", "t",
     "e", "r", "a", "n", "g", "e", "s" >>

\* content_length after sscanf(next_line.begin(), "Content-Length : %lu%c",
\* &content_length, &backslashR): stored whenever the %lu conversion is made
ScanContentLength(text, pos, content_length) ==
  LET next == ScanFormat(text, pos, ContentLength, 1)
  IN IF next # 0 /\ ScanNumber(text, next).matched
       THEN ScanNumber(text, next).value
       ELSE content_length

RECURSIVE HeaderLines(_, _, _)
\* the loop over the header lines (lines 74-104), line_end being the
\* position of the '\n' of the line before: "more" if the text ends before
\* the next '\n', "throw", or "done" at the '\n' of the empty line
HeaderLines(text, line_end, content_length) ==
  LET pos       == line_end + 1
      next_end  == Find(text, pos, LF)
      next_line == SubSeq(text, pos, next_end - 1)
  IN IF next_end > Len(text)
       THEN [outcome |-> "more", line_end |-> next_end,
             content_length |-> content_length]
     ELSE IF Len(next_line) <= 1
       THEN [outcome |-> "done", line_end |-> next_end,
             content_length |-> content_length]
     ELSE IF \A i \in 1..Len(next_line) : next_line[i] # ":"
       THEN [outcome |-> "throw", line_end |-> next_end,
             content_length |-> content_length]
     ELSE IF ScanThenCR(text, pos, TransferEncodingIdentity)
             \/ ScanThenCR(text, pos, ContentTypeMultipart)
       THEN [outcome |-> "throw", line_end |-> next_end,
             content_length |-> ScanContentLength(text, pos, content_length)]
     ELSE HeaderLines(text, next_end,
                      ScanContentLength(text, pos, content_length))

\* what a call of parse leaves: whether it threw, what it returned, the
\* parser's parsed and the invocations of write_back it made
ParseThrew(p) ==
  [thrown |-> TRUE, consumed |-> FALSE, parsed |-> p, calls |-> <<>>]

ParseNeedsMore(p) ==
  [thrown |-> FALSE, consumed |-> FALSE, parsed |-> p, calls |-> <<>>]

ParseHanded(p, view) ==
  [thrown |-> FALSE, consumed |-> TRUE, parsed |-> p,
   calls |-> << [parsed |-> p, view |-> view] >>]

\* lines 106-120: the header block ended at the '\n' at h.line_end
HeaderParsed(p, data, status_code, h) ==
  IF h.outcome = "more" THEN ParseNeedsMore(p)
  ELSE IF h.outcome = "throw" \/ h.content_length = 0 THEN ParseThrew(p)
  ELSE ParseHanded([status_code    |-> status_code,
                    length         |-> h.content_length,
                    received_bytes |-> Len(data) - h.line_end],
                   SubSeq(data, h.line_end + 1, Len(data)))

\* HttpHeaderParser::parse(data, received_len, write_back), data being the
\* received_len bytes, on a parser whose parsed is p
HttpHeaderParser_parse(p, data) ==
  IF p.status_code > 0
    THEN ParseHanded([p EXCEPT !.received_bytes = @ + Len(data)], data)
  ELSE IF Find(data, 1, LF) > Len(data) THEN ParseNeedsMore(p)
  ELSE IF ~StatusLineAccepted(StatusLine(data)) THEN ParseThrew(p)
  ELSE HeaderParsed(p, data, StatusLine(data).status_code,
                    HeaderLines(data, Find(data, 1, LF), 0))

\* HttpHeaderParser::has_parsed, on a parser whose parsed is p
has_parsed(p) == p.status_code # 0

\* HttpHeaderParser::receive_done
receive_done(p) == p.length = p.received_bytes

bufferSize == 16096

\* the responses: a status line, header lines, the empty line and a body
Response(status, reason, headers, body) ==
  HttpVersion \o <<" ">> \o status \o <<" ">> \o reason \o <<CR, LF>>
    \o headers \o <<CR, LF>> \o body

LengthHeader(digits) ==
  << "C", "o", "n", "t", "e", "n", "t", "-", "L", "e", "n", "g", "t", "h",
     ":", " " >>
    \o digits \o <<CR, LF>>

ServerHeader ==
  << "S", "e", "r", "v", "e", "r", ":", " ", "x", CR, LF >>

\* well-formed responses, with the body and the status code they carry
WellFormedResponses ==
  { [response    |-> Response(<<"2", "0", "0">>, <<"O", "K">>,
                              LengthHeader(<<"2">>), <<"h", "i">>),
     body        |-> <<"h", "i">>,
     status_code |-> 200],
    [response    |-> Response(<<"4", "0", "4">>, <<"N", "o">>,
                              ServerHeader \o LengthHeader(<<"0", "4">>),
                              <<"a", LF, LF, "b">>),
     body        |-> <<"a", LF, LF, "b">>,
     status_code |-> 404],
    [response    |-> Response(<<"2", "0", "0">>, <<"O", "K">>,
                              LengthHeader(<<"1">>) \o ServerHeader,
                              <<":">>),
     body        |-> <<":">>,
     status_code |-> 200] }

\* a response cut short: the peer closes after three of five body bytes
TruncatedResponses ==
  { [response    |-> Response(<<"2", "0", "0">>, <<"O", "K">>,
                              LengthHeader(<<"5">>), <<"a", "b", "c">>),
     body        |-> <<"a", "b", "c">>,
     status_code |-> 200] }

HttpInit ==
  /\ pc = "receive"
  /\ \E r \in WellFormedResponses \cup TruncatedResponses :
       socket = [response |-> r.response, body |-> r.body,
                 status_code |-> r.status_code, at |-> 0]
  /\ buffer_ = <<>>
  /\ parsed = NothingParsed
  /\ callback = <<>>
  /\ returned = NothingParsed
  /\ EncoderIdle
  /\ UrlIdle
  /\ BitIdle
  /\ BlockIdle
  /\ TableIdle

\* the bytes read() has not returned yet
Unread == SubSeq(socket.response, socket.at + 1, Len(socket.response))

\* the rest of an iteration of the loop of receive after parse left r, data
\* being the first dataRead bytes of buffer_ (lines 328-337)
AfterParse(r, data) ==
  /\ callback' = callback \o r.calls
  /\ parsed' = r.parsed
  /\ buffer_' = IF r.consumed THEN <<>> ELSE data
  /\ IF r.thrown
       THEN pc' = "done" /\ result' = "throw" /\ UNCHANGED returned
     ELSE IF receive_done(r.parsed)
       THEN pc' = "done" /\ result' = "returned" /\ returned' = r.parsed
     ELSE IF ~has_parsed(r.parsed) /\ bufferSize <= Len(data)
       THEN pc' = "done" /\ result' = "throw" /\ UNCHANGED returned
     ELSE UNCHANGED <<pc, result, returned>>

\* an iteration of the loop of receive in which read() returns get > 0
\* bytes, any number of those the peer has sent that fit in buffer_.  (A
\* read that fails with EINTR, ETIMEDOUT or EAGAIN is retried and changes
\* nothing.)
Receive ==
  /\ pc = "receive"
  /\ Len(buffer_) < bufferSize
  /\ \E get \in 1..Min(Len(Unread), bufferSize - Len(buffer_)) :
       /\ socket' = [socket EXCEPT !.at = @ + get]
       /\ AfterParse(HttpHeaderParser_parse(parsed,
                                            buffer_ \o SubSeq(Unread, 1, get)),
                     buffer_ \o SubSeq(Unread, 1, get))
  /\ UNCHANGED <<args, failAt, Tables, buffer, out, calls, LoopVars, log,
                 SampleVars, UrlVars, BitVars, BlockVars, TableVars>>

\* the iteration in which read() returns 0, the peer having closed the
\* connection: the loop is left and the parsed header returned
ReceiveEnd ==
  /\ pc = "receive"
  /\ Len(buffer_) < bufferSize
  /\ Unread = <<>>
  /\ pc' = "done"
  /\ result' = "returned"
  /\ returned' = parsed
  /\ UNCHANGED <<socket, buffer_, parsed, callback>>
  /\ UNCHANGED <<args, failAt, Tables, buffer, out, calls, LoopVars, log,
                 SampleVars, UrlVars, BitVars, BlockVars, TableVars>>

HttpNext == Receive \/ ReceiveEnd

HttpSpec == HttpInit /\ [][HttpNext]_vars

\* ------------------------------------------------------------------------
\* The quantization tables on their own: tableIn = [lower, higher] are two
\* accepted qualities, tableOut the tables writeJpegQuality builds for each
\* ------------------------------------------------------------------------

\* the qualities of line 225
AcceptedQualities == { q \in 0..255 : QualityAccepted(q) }

QuantInit ==
  /\ pc = "quant"
  /\ tableIn \in [lower : AcceptedQualities, higher : AcceptedQualities]
  /\ tableIn.lower < tableIn.higher
  /\ tableOut = <<>>
  /\ EncoderIdle
  /\ UrlIdle
  /\ BitIdle
  /\ BlockIdle
  /\ HttpIdle

\* quantLuminance and quantChrominance of lines 238-239
QuantTables(quality_) ==
  [quantLuminance   |-> quant_table(DefaultQuantLuminance_A,
                                    QualityFactor(quality_)),
   quantChrominance |-> quant_table(DefaultQuantChrominance_A,
                                    QualityFactor(quality_))]

BuildQuantTables ==
  /\ pc = "quant"
  /\ tableOut' = [lower  |-> QuantTables(tableIn.lower),
                  higher |-> QuantTables(tableIn.higher)]
  /\ pc' = "done"
  /\ UNCHANGED <<tableIn, EncoderVars, UrlVars, BitVars, BlockVars, HttpVars>>

QuantNext == BuildQuantTables

QuantSpec == QuantInit /\ [][QuantNext]_vars

\* ------------------------------------------------------------------------
\* Properties
\* ------------------------------------------------------------------------

Done == pc = "done"

Success == Done /\ result = "true"

\* the call ended without success: "false" is the return value, "throw" an
\* exception leaving the call
Failure == Done /\ result \in {"false", "throw"}

\* the log entries of a segment
Entries(segment) == {i \in 1..Len(log) : log[i].segment = segment}

Entry(segment) == log[CHOOSE i \in Entries(segment) : TRUE]

SegmentNames == [i \in 1..Len(log) |-> log[i].segment]

\* the bytes of a log entry
BytesOf(e) == SubSeq(out, e.from, e.to)

\* FF D9 at positions i, i + 1 of the stream
EoiAt(i) == out[i] = 255 /\ out[i + 1] = 217

\* position i lies in the segment's bytes
Within(i, segment) ==
  \E k \in Entries(segment) : log[k].from <= i /\ i <= log[k].to

\* the entropy-coded data delivered so far: everything after the SOS header
\* and before the EOI marker
EntropyFirst == IF Entries("SOS") = {} THEN Len(out) + 1 ELSE Entry("SOS").to + 1

EntropyLast == IF Entries("EOI") = {} THEN Len(out) ELSE Entry("EOI").from - 1

\* C1 (as stated): an accepted call's stream starts with FF D8, ends with
\* FF D9, and FF D9 occurs nowhere before the final two bytes.
C1_Stated ==
  Success =>
    /\ SubSeq(out, 1, 2) = <<255, 216>>
    /\ SubSeq(out, Len(out) - 1, Len(out)) = <<255, 217>>
    /\ \A i \in 1..(Len(out) - 2) : ~EoiAt(i)

\* C1 (corrected): an accepted call's stream starts with FF D8 and ends with
\* FF D9; before the final two bytes FF D9 can occur only inside the COM
\* segment (length field, comment bytes) or the SOF0 segment (dimensions),
\* and never in the entropy-coded data or any other segment.
C1_StartEndAndNoEoiInData ==
  Success =>
    /\ SubSeq(out, 1, 2) = <<255, 216>>
    /\ SubSeq(out, Len(out) - 1, Len(out)) = <<255, 217>>
    /\ \A i \in 1..(Len(out) - 2) :
         EoiAt(i) => Within(i, "COM") \/ Within(i, "SOF0")

\* C1 witness: a complete stream whose entropy-coded data holds the bytes
\* FF 00 D9, the Huffman code FFD9 after stuffing
C1_Witness ==
  /\ Success
  /\ \E i \in EntropyFirst..(EntropyLast - 2) :
       out[i] = 255 /\ out[i + 1] = 0 /\ out[i + 2] = 217

\* C2: in the bytes delivered after the SOS header and before the EOI marker,
\* every FF is immediately followed by 00, after every block and after the
\* flush (sink never throwing).
C2_EveryFFStuffed ==
  failAt = 0 =>
    \A i \in EntropyFirst..EntropyLast :
      out[i] = 255 => i < EntropyLast /\ out[i + 1] = 0

\* C2 witness: a complete stream in which a block wrote an FF and the
\* byte produced by the flush is an FF as well, each followed by 00
C2_Witness ==
  /\ Success
  /\ \E i \in EntropyFirst..EntropyLast : out[i] = 255 /\ Within(i, "block")
  /\ BytesOf(Entry("flush")) = <<255, 0>>

\* the order of the write steps of a successful call
ExpectedSegments ==
  <<"JFIF">> \o (IF args.comment # <<>> THEN <<"COM">> ELSE <<>>)
             \o <<"DQT", "SOF0", "DHT", "SOS">>
             \o [i \in 1..blockNo |-> "block"]
             \o <<"flush", "EOI">>

\* the marker each segment starts with
MarkerOf(segment) ==
  CASE segment = "JFIF" -> <<255, 216, 255, 224>>
    [] segment = "COM"  -> <<255, 254>>
    [] segment = "DQT"  -> <<255, 219>>
    [] segment = "SOF0" -> <<255, 192>>
    [] segment = "DHT"  -> <<255, 196>>
    [] segment = "SOS"  -> <<255, 218>>
    [] segment = "EOI"  -> <<255, 217>>

SegmentsInOrder ==
  /\ SegmentNames = ExpectedSegments
  /\ blockNo >= 1
  /\ \A k \in 1..Len(log) :
       /\ log[k].from = (IF k = 1 THEN 1 ELSE log[k - 1].to + 1)
       /\ log[k].segment \notin {"block", "flush"} =>
            SubSeq(out, log[k].from,
                   log[k].from + Len(MarkerOf(log[k].segment)) - 1)
              = MarkerOf(log[k].segment)
  /\ log[Len(log)].to = Len(out)

\* C3 (as stated): the segments reach the sink in the order SOI, APP0, COM
\* (iff the comment is non-empty), DQT, SOF0, DHT, SOS, entropy-coded data,
\* the flushed padding byte, EOI, each exactly once.
C3_Stated ==
  Success =>
    /\ SegmentsInOrder
    /\ Entry("flush").to >= Entry("flush").from

\* C3 (corrected): the same order, with only block writes between the SOS
\* header and the flush and no bit-level write after the flush; the flush
\* delivers a padding byte exactly when bits are pending in the buffer.
C3_OrderAndPaddingIfPending ==
  Success =>
    /\ SegmentsInOrder
    /\ (Entry("flush").to >= Entry("flush").from) = (Entry("flush").bits > 0)

\* C3 witness: a successful call with a comment whose flush found an
\* empty buffer and delivered nothing
C3_Witness ==
  /\ Success
  /\ args.comment # <<>>
  /\ Entry("flush").bits = 0
  /\ Entry("flush").to < Entry("flush").from

\* the 16-bit big-endian value at positions i, i + 1 of the stream
Length16(i) == out[i] * 256 + out[i + 1]

\* C4: for every segment with a length field (APP0, COM, DQT, SOF0, DHT,
\* SOS) the length written after the marker is 2 plus the number of payload
\* bytes written before the next marker.
C4_Stated ==
  \A k \in 1..Len(log) :
    ~log[k].thrown =>
      /\ log[k].segment = "JFIF" =>
           Length16(log[k].from + 4) = log[k].to - log[k].from + 1 - 4
      /\ log[k].segment \in {"COM", "DQT", "SOF0", "DHT", "SOS"} =>
           Length16(log[k].from + 2) = log[k].to - log[k].from + 1 - 2

\* the SOF0 segment the arguments call for
ExpectedComponent(id) ==
  << id,
     IF id = 1 /\ args.isRGB /\ args.downsample THEN 34 ELSE 17,
     IF id = 1 THEN 0 ELSE 1 >>

ExpectedSOF0 ==
  << 255, 192, 0, 8 + 3 * (IF args.isRGB THEN 3 ELSE 1), 8,
     args.height \div 256, args.height % 256,
     args.width \div 256, args.width % 256 >>
  \o (IF args.isRGB
        THEN <<3>> \o ExpectedComponent(1) \o ExpectedComponent(2)
                   \o ExpectedComponent(3)
        ELSE <<1>> \o ExpectedComponent(1))

\* C5: the SOF0 payload is 08, height, width (big-endian), the component
\* count, then (id, sampling, qtable) per component, sampling 0x22 only for
\* component 1 of an RGB image with downsample = true, 0x11 otherwise.
C5_FramePayload ==
  (Entries("SOF0") # {} /\ ~Entry("SOF0").thrown) =>
    BytesOf(Entry("SOF0")) = ExpectedSOF0

\* C5 witness: the frame header of a grayscale image encoded with the
\* downsample flag set has been written
C5_Witness ==
  /\ Entries("SOF0") # {} /\ ~Entry("SOF0").thrown
  /\ ~args.isRGB /\ args.downsample

\* C6: for every accepted quality q the table entries written to the stream
\* are clamp((D * s + 50) / 100, 1, 255) with s = 5000 / q for q < 50 and
\* s = 200 - 2 * q otherwise.
C6_Stated ==
  quantLuminance # <<>> =>
    \A i \in 1..64 :
      /\ quantLuminance[i] =
           Clamp((DefaultQuantLuminance_A[ZigZagInv[i] + 1]
                    * QualityFactor(args.quality_) + 50) \div 100, 1, 255)
      /\ quantChrominance[i] =
           Clamp((DefaultQuantChrominance_A[ZigZagInv[i] + 1]
                    * QualityFactor(args.quality_) + 50) \div 100, 1, 255)

\* C7: a call with quality 1 or 100 is accepted and delivers a complete
\* stream; a call with quality 0 or 101 is rejected.
C7_Stated ==
  (Done /\ failAt = 0 /\ ~Rejected(args)) =>
    /\ args.quality_ \in {1, 100} =>
         Success /\ SubSeq(out, 1, 2) = <<255, 216>>
                 /\ SubSeq(out, Len(out) - 1, Len(out)) = <<255, 217>>
    /\ args.quality_ \in {0, 101} => Failure /\ out = <<>>

\* C8: a call whose comment contains a byte FF is rejected, and no byte of
\* the comment reaches the sink.
C8_Stated ==
  (Done /\ \E i \in 1..Len(args.comment) : args.comment[i] = 255) =>
    Failure /\ Entries("COM") = {}

\* C9: a call with width 0, height 0 or a null pixel pointer never invokes
\* the sink and ends in failure.
C9_RejectedBeforeSink ==
  (args.width = 0 \/ args.height = 0 \/ args.pixelsNull) =>
    /\ calls = 0
    /\ out = <<>>
    /\ Done => Failure

\* C9 witness: a call with an accepted quality and width 0 has returned false
C9_Witness ==
  /\ Done
  /\ QualityAccepted(args.quality_)
  /\ args.width = 0 /\ args.height > 0 /\ ~args.pixelsNull
  /\ result = "false"

\* C10: if the sink reports an error on some invocation, the sink is not
\* invoked again and the call returns failure.
C10_Stated ==
  (Done /\ failAt # 0 /\ calls >= failAt) =>
    calls = failAt /\ Failure

\* C11: the bytes of a call are a function of its inputs: every value that
\* influences an emitted byte (a sample, a coefficient, the bit buffer) is
\* written during the call before it is read, so no array handed to
\* encode_block holds a value the call has not defined.
C11_Stated == ~undefinedBehaviour

\* the samples of a block of a constant-colour image
FlatY ==
  IF args.isRGB
    THEN rgb2y(args.image.colour[1], args.image.colour[2],
               args.image.colour[3]) - 128 * Fix
    ELSE (args.image.colour[1] - 128) * Fix

\* C12: for a constant-colour image every Y block has the quantized DC of
\* the first block (so its DC difference is zero after the first) and an
\* all-zero AC part (coded as a single EOB).
C12_Stated ==
  (args.image.kind = "flat" /\ Defined(Y)) =>
    Quantized(Y, scaled_luminance(quantLuminance)) =
      Quantized([n \in 0..63 |-> FlatY], scaled_luminance(quantLuminance))

\* C13: a call with non-null pixels, width and height of at least 1, an
\* accepted quality and a sink that does not fail ends by returning true,
\* the EOI marker being the last bytes handed to the sink.
C13_Stated ==
  (Done /\ ~Rejected(args) /\ QualityAccepted(args.quality_) /\ failAt = 0) =>
    /\ result = "true"
    /\ log # <<>>
    /\ log[Len(log)].segment = "EOI"

\* the string C14 describes for from_relative(absolute_url, url_s), <<>> if
\* url_s starts with none of "http", "//", "/"
Described ==
  IF startsWith(url_s, <<"h", "t", "t", "p">>) THEN url_s
  ELSE IF startsWith(url_s, <<"/", "/">>)
    THEN absolute_url.protocol_ \o <<":">> \o url_s
  ELSE IF startsWith(url_s, <<"/">>)
    THEN absolute_url.protocol_ \o <<":", "/", "/">> \o absolute_url.host_
           \o url_s
  ELSE <<>>

HasProtocolEnd(str) ==
  \E i \in 1..(Len(str) - 2) : SubSeq(str, i, i + 2) = <<":", "/", "/">>

\* str with its protocol and host in lower case: every character before
\* the first '/' that follows the first "://"
LowerHead(str) ==
  [i \in 1..Len(str) |->
     IF i < Find(str, Search(str, <<":", "/", "/">>) + 3, "/")
       THEN ToLower(str[i]) ELSE str[i]]

\* from_relative threw exactly if url_s has none of the three prefixes or
\* the described string has no "://", and full() of its result is expected
FromRelativeGives(expected) ==
  /\ image_url.thrown <=> (Described = <<>> \/ ~HasProtocolEnd(Described))
  /\ ~image_url.thrown =>
       /\ full(image_url) = expected
       /\ image_url = parse(Described)
       /\ image_url.protocol_ \o <<":", "/", "/">> \o image_url.host_
            \o image_url.path_and_query_ = full(image_url)

\* a Url is not constructed from a string without "://"
ConstructThrows ==
  (pc # "construct" /\ ~HasProtocolEnd(urlBase)) => absolute_url.thrown

\* C14 as stated: from_relative returns the Url parsed from url_s ("http"),
\* from protocol + ":" + url_s ("//"), from protocol + "://" + host + url_s
\* ("/") and throws otherwise; full() of the result equals that string; a
\* string without "://" makes the constructor throw.
C14_Stated ==
  /\ ConstructThrows
  /\ (pc = "done" /\ ~absolute_url.thrown) => FromRelativeGives(Described)

\* C14 amended: as stated, but full() of the result is that string with its
\* protocol and host (all that precedes the first '/' after the first
\* "://") in lower case.
C14_FullIsLowercased ==
  /\ ConstructThrows
  /\ (pc = "done" /\ ~absolute_url.thrown) =>
       FromRelativeGives(LowerHead(Described))

\* C14 witness: from_relative has returned a Url for a url_s that starts
\* with "//" and names a host with a capital letter
C14_Witness ==
  /\ pc = "done"
  /\ ~absolute_url.thrown /\ ~image_url.thrown
  /\ startsWith(url_s, <<"/", "/", "A">>)
  /\ image_url.host_ = <<"a", "b">>
  /\ full(image_url) # Described

\* the bits of a code, most significant first
BitsOf(bc) ==
  [i \in 1..bc.numBits |-> (bc.code \div Pow2(bc.numBits - i)) % 2]

RECURSIVE AllBits(_)
\* the bits of a sequence of operations, in call order
AllBits(seq) ==
  IF seq = <<>> THEN <<>>
  ELSE AllBits(SubSeq(seq, 1, Len(seq) - 1)) \o BitsOf(seq[Len(seq)].bc)

RECURSIVE ValueOf(_)
\* the number a sequence of bits is, most significant first
ValueOf(bits) ==
  IF bits = <<>> THEN 0
  ELSE 2 * ValueOf(SubSeq(bits, 1, Len(bits) - 1)) + bits[Len(bits)]

RECURSIVE Destuffed(_)
\* bytes without the 0x00 that follows each 0xFF
Destuffed(bytes) ==
  IF bytes = <<>> THEN <<>>
  ELSE IF Len(bytes) >= 2 /\ bytes[1] = 255 /\ bytes[2] = 0
    THEN <<255>> \o Destuffed(SubSeq(bytes, 3, Len(bytes)))
  ELSE <<bytes[1]>> \o Destuffed(Tail(bytes))

OnlyCodes(seq) == \A i \in 1..Len(seq) : ~seq[i].flush

\* bytes are the successive 8-bit groups of bits, and the numBits low bits
\* of data are the bits left over
GroupsOf(bits, bytes, data, numBits) ==
  /\ Len(bytes) = Len(bits) \div 8
  /\ \A i \in 1..Len(bytes) :
       bytes[i] = ValueOf(SubSeq(bits, 8 * i - 7, 8 * i))
  /\ numBits = Len(bits) % 8
  /\ Low32(data, numBits).lo =
       ValueOf(SubSeq(bits, 8 * Len(bytes) + 1, Len(bits)))

\* C15: after any sequence of put_bitcode calls with 1 <= nbits <= 16 and
\* code < 2^nbits the emitted bytes, stuffed zeros removed, are the
\* successive 8-bit groups (most significant bit first) of all the codes'
\* bits in call order, and the bits that fill no byte yet are the low bits
\* of the buffer.
C15_BytesAreBitGroups ==
  OnlyCodes(applied) =>
    GroupsOf(AllBits(applied), Destuffed(out), buffer.data, buffer.numBits)

\* C15 witness: three codes of 26 bits in all have been written: three
\* bytes, one of them 0xFF with its stuffed zero, and two bits left over
C15_Witness ==
  /\ OnlyCodes(applied) /\ Len(applied) = 3
  /\ Len(AllBits(applied)) = 26
  /\ Len(out) = 4 /\ Len(Destuffed(out)) = 3
  /\ buffer.numBits = 2

RECURSIVE Replayed(_)
\* the BitWriter<> after a sequence of operations
Replayed(seq) ==
  IF seq = <<>> THEN NewWriter
  ELSE PutBitCode(Replayed(SubSeq(seq, 1, Len(seq) - 1)), seq[Len(seq)].bc)

\* the writer before the last operation applied
Before == Replayed(SubSeq(applied, 1, Len(applied) - 1))

\* the bytes the last operation emitted
Emitted ==
  SubSeq(out, Len(Flatten(Before.chunks, 1, Len(Before.chunks))) + 1,
         Len(out))

\* k pending bits followed by 8 - k one-bits
Padded(pending, k) == pending * Pow2(8 - k) + Pow2(8 - k) - 1

\* C16: flush with k pending bits, 1 <= k <= 7, emits exactly one byte, the
\* pending bits at the top and 8 - k one-bits below them (and 0x00 after it
\* if it is 0xFF); with no bits pending it emits nothing.
C16_FlushPadsWithOnes ==
  (applied # <<>> /\ applied[Len(applied)].flush) =>
    /\ Before.numBits = 0 => Emitted = <<>>
    /\ Before.numBits \in 1..7 =>
         Emitted =
           IF Padded(Low32(Before.data, Before.numBits).lo,
                     Before.numBits) = 255
             THEN <<255, 0>>
             ELSE <<Padded(Low32(Before.data, Before.numBits).lo,
                           Before.numBits)>>

\* C16 witness: flush has been called with the three pending bits 100
C16_Witness ==
  /\ applied = <<[flush |-> FALSE, bc |-> BitCode(4, 3)],
                 [flush |-> TRUE, bc |-> BitCode(127, 7)]>>
  /\ out = <<159>>

\* buffer.numBits right after line 59 of a call with bc
NumBitsDuring(w, bc) == U8(w.numBits + bc.numBits)

\* C17: the bit count is at most 7 after every completed call and at most
\* 23 during a call (it is largest right after the new code's length is
\* added), so it stays within 0..31.
C17_BitCountBounds ==
  /\ buffer.numBits \in 0..7
  /\ clearWriter.numBits \in 0..7
  /\ pc = "bits" => NumBitsDuring(Writer, Head(ops).bc) \in 0..23

\* C17 witness: a call with a 16-bit code starts with 7 bits pending
C17_Witness ==
  /\ pc = "bits"
  /\ buffer.numBits = 7
  /\ Head(ops).bc.numBits = 16
  /\ NumBitsDuring(Writer, Head(ops).bc) = 23

\* C18: BitWriter<false> and BitWriter<true> emit the same bytes for every
\* sequence of put_bitcode and flush calls (and hold the same pending
\* bits).
C18_SameBytes ==
  /\ out = Flatten(clearWriter.chunks, 1, Len(clearWriter.chunks))
  /\ buffer.numBits = clearWriter.numBits
  /\ Low32(buffer.data, buffer.numBits) = clearWriter.data

\* C18 witness: after a flush and codes the buffer of BitWriter<false> holds
\* stale high bits that BitWriter<true> has cleared, and bytes have been
\* written
C18_Witness ==
  /\ Len(applied) = 3
  /\ \E i \in 1..3 : applied[i].flush
  /\ buffer.data # clearWriter.data
  /\ Len(out) >= 3
  /\ \E i \in 1..Len(out) : out[i] = 255

\* ------------------------------------------------------------------------
\* A decoder of the entropy-coded data (ITU T.81, F.2.2), to read back what
\* the block encoder wrote
\* ------------------------------------------------------------------------

\* the bits of a sequence of bytes, most significant first
ByteBits(bytes) ==
  [i \in 1..(8 * Len(bytes)) |->
     (bytes[((i - 1) \div 8) + 1] \div Pow2(7 - ((i - 1) % 8))) % 2]

\* the numBits bits pending in a bit buffer
PendingBits(data, numBits) ==
  [i \in 1..numBits |-> (Low32(data, numBits).lo \div Pow2(numBits - i)) % 2]

\* all the bits the writer has been given: those written, without the
\* stuffed zeros, and those pending
StreamBits ==
  ByteBits(Destuffed(out)) \o PendingBits(buffer.data, buffer.numBits)

\* the symbol of every code of a Huffman table
Inverse(table) ==
  [bc \in { table[s] : s \in { t \in 0..255 : table[t].numBits > 0 } } |->
     CHOOSE s \in 0..255 : table[s] = bc]

InverseDCLuminance == Inverse(ht_l_dc)

InverseACLuminance == Inverse(ht_l_ac)

InverseDCChrominance == Inverse(ht_c_dc)

InverseACChrominance == Inverse(ht_c_ac)

RECURSIVE SymbolAt(_, _, _, _, _)
\* the symbol whose code starts at bits[from]: code holds the n bits read
\* so far; symbol -1 if there is none
SymbolAt(inverse, bits, from, n, code) ==
  IF n > 0 /\ BitCode(code, n) \in DOMAIN inverse
    THEN [symbol |-> inverse[BitCode(code, n)], next |-> from + n]
  ELSE IF n >= 16 \/ from + n > Len(bits)
    THEN [symbol |-> -1, next |-> from]
  ELSE SymbolAt(inverse, bits, from, n + 1, 2 * code + bits[from + n])

\* the value of the category's additional bits (T.81, F.2.2.1 EXTEND)
Extended(v, category) ==
  IF category = 0 THEN 0
  ELSE IF v < Pow2(category - 1) THEN v - (Pow2(category) - 1)
  ELSE v

\* the value coded in the category bits from bits[from] on
ValueAt(bits, from, category) ==
  IF from + category - 1 > Len(bits) THEN 0
  ELSE Extended(ValueOf(SubSeq(bits, from, from + category - 1)), category)

Zeros(n) == [i \in 1..n |-> 0]

RECURSIVE DecodeAC(_, _, _, _, _)
DecodeACSymbol(inverse, bits, s, q, symbols) ==
  IF s.symbol = -1
    THEN [q |-> q, symbols |-> Append(symbols, -1), next |-> s.next]
  ELSE IF s.symbol = 0
    THEN [q |-> q \o Zeros(63 - Len(q)), symbols |-> Append(symbols, 0),
          next |-> s.next]
  ELSE IF s.symbol = 240
    THEN DecodeAC(inverse, bits, s.next, q \o Zeros(16),
                  Append(symbols, 240))
  ELSE DecodeAC(inverse, bits, s.next + (s.symbol % 16),
                q \o Zeros(s.symbol \div 16)
                  \o <<ValueAt(bits, s.next, s.symbol % 16)>>,
                Append(symbols, s.symbol))

\* the AC coefficients coded from bits[from] on, q being those decoded so
\* far and symbols the symbols read so far
DecodeAC(inverse, bits, from, q, symbols) ==
  IF Len(q) >= 63 THEN [q |-> q, symbols |-> symbols, next |-> from]
  ELSE DecodeACSymbol(inverse, bits, SymbolAt(inverse, bits, from, 0, 0),
                      q, symbols)

\* the DC difference coded at bits[from], s being its category symbol
DecodeDCSymbol(bits, s) ==
  [diff |-> IF s.symbol = -1 THEN 0 ELSE ValueAt(bits, s.next, s.symbol),
   symbol |-> s.symbol,
   next |-> IF s.symbol = -1 THEN s.next ELSE s.next + s.symbol]

DecodeDC(luminance, bits, from) ==
  DecodeDCSymbol(bits,
                 SymbolAt(IF luminance THEN InverseDCLuminance
                                       ELSE InverseDCChrominance,
                          bits, from, 0, 0))

\* the AC part that follows the DC difference dc
DecodeACAfter(luminance, bits, dc) ==
  DecodeAC(IF luminance THEN InverseACLuminance ELSE InverseACChrominance,
           bits, dc.next, <<>>, <<>>)

\* the number of bits of |v|
Category(v) ==
  IF v = 0 THEN 0
  ELSE CHOOSE n \in 1..15 : Pow2(n - 1) <= Abs(v) /\ Abs(v) < Pow2(n)

RECURSIVE SymbolsFrom(_, _, _)
\* the AC symbols C19 describes for quantized[i..63], z zeros preceding
SymbolsFrom(quantized, i, z) ==
  IF i > 63 THEN (IF z > 0 THEN <<0>> ELSE <<>>)
  ELSE IF quantized[i] = 0 THEN SymbolsFrom(quantized, i + 1, z + 1)
  ELSE [k \in 1..(z \div 16) |-> 240]
         \o <<16 * (z % 16) + Category(quantized[i])>>
         \o SymbolsFrom(quantized, i + 1, 0)

\* what was decoded is the AC part of quantized, coded with the symbols
\* described, and the block ends with it
DecodesTo(ac, quantized, bits) ==
  /\ ac.q = quantized
  /\ ac.symbols = SymbolsFrom(quantized, 1, 0)
  /\ ac.next = Len(bits) + 1

\* C19: decoding the AC symbols of an encoded block gives back q[1..63];
\* a non-zero coefficient after z zeros is coded as floor(z / 16) symbols
\* 0xF0 and one symbol with run z mod 16; trailing zeros are coded by the
\* one symbol 0x00, which is there iff q[63] = 0.
C19_ACRoundTrip ==
  pc = "done" =>
    DecodesTo(DecodeACAfter(blockIn.luminance, StreamBits,
                            DecodeDC(blockIn.luminance, StreamBits,
                                     blockIn.pending + 1)),
              blockIn.quantized, StreamBits)

\* C19 witness: a block with 16 zeros before q[17] and a non-zero q[63] has
\* been encoded
C19_Witness ==
  /\ pc = "done"
  /\ blockIn.quantized[17] # 0 /\ blockIn.quantized[63] # 0
  /\ PosNonZero(blockIn.quantized) = 63
  /\ Len(out) >= 3

\* the channel of the n-th block emitted (n = 0, 1, ...)
ChannelOf(n) ==
  IF ~args.isRGB THEN "Y"
  ELSE IF downsample
    THEN (IF n % 6 < 4 THEN "Y" ELSE IF n % 6 = 4 THEN "Cb" ELSE "Cr")
  ELSE (IF n % 3 = 0 THEN "Y" ELSE IF n % 3 = 1 THEN "Cb" ELSE "Cr")

\* the blocks of a channel among the first n emitted
BlocksOf(channel, n) == { m \in 0..(n - 1) : ChannelOf(m) = channel }

\* the quantized DC of the last block of a channel among the first n
\* emitted, 0 if there is none
PreviousDC(channel, n) ==
  IF BlocksOf(channel, n) = {} THEN 0
  ELSE Coefficients(args.image,
                    CHOOSE m \in BlocksOf(channel, n) :
                      \A k \in BlocksOf(channel, n) : k <= m).DC

\* the last step wrote a block, and the sink took it
BlockWritten ==
  /\ log # <<>>
  /\ log[Len(log)].segment = "block"
  /\ \A i \in 1..Len(log) : ~log[i].thrown

\* the first bits of the block last written, from the bits that were
\* pending before it: enough for its DC difference
LastBlockBits(e) ==
  IF e.to - e.from >= 7
    THEN ByteBits(Destuffed(SubSeq(out, e.from, e.from + 7)))
    ELSE ByteBits(Destuffed(SubSeq(out, e.from, e.to)))
           \o PendingBits(buffer.data, buffer.numBits)

\* the DC difference coded in the block last written
CodedDifference ==
  DecodeDC(ChannelOf(blockNo - 1) = "Y", LastBlockBits(log[Len(log)]),
           log[Len(log)].bits + 1).diff

\* C20: the DC difference coded for a block is its quantized DC minus that
\* of the block emitted before it in the same channel (0 for the first);
\* the three registers hold the DC of the last block of their own channel,
\* so in 4:2:0 the four Y blocks of an MCU chain in emission order.
C20_DifferencePerChannel ==
  BlockWritten =>
    /\ CodedDifference =
         Coefficients(args.image, blockNo - 1).DC
           - PreviousDC(ChannelOf(blockNo - 1), blockNo - 1)
    /\ lastYDC = PreviousDC("Y", blockNo)
    /\ lastCbDC = PreviousDC("Cb", blockNo)
    /\ lastCrDC = PreviousDC("Cr", blockNo)

\* C20 witness: in a 4:2:0 call the second Y block of the second MCU has
\* been written, with a non-zero difference to the Y block before it, the
\* three registers holding values of their own
C20_Witness ==
  /\ BlockWritten
  /\ args.isRGB /\ downsample
  /\ blockNo = 8
  /\ CodedDifference # 0
  /\ CodedDifference = lastYDC - Coefficients(args.image, 6).DC
  /\ lastCbDC = Coefficients(args.image, 4).DC
  /\ lastCrDC = Coefficients(args.image, 5).DC
  /\ lastCbDC # lastCrDC

\* ------------------------------------------------------------------------
\* C21: the order of the blocks
\* ------------------------------------------------------------------------

\* ceil(size / mcuSize)
McusAlong(size) == (size + mcuSize - 1) \div mcuSize

YBlocksPerMcu == IF downsample THEN 4 ELSE 1

BlocksPerMcu == IF args.isRGB THEN YBlocksPerMcu + 2 ELSE YBlocksPerMcu

\* the raster index of the MCU the loops are at
McuIndex == (mcuY \div mcuSize) * McusAlong(args.width) + (mcuX \div mcuSize)

\* the place in its MCU of the block about to be encoded: the Y blocks row
\* by row (top-left, top-right, bottom-left, bottom-right), then Cb, then Cr
PlaceInMcu ==
  IF pc = "Y" THEN (blockY \div 8) * (mcuSize \div 8) + (blockX \div 8)
  ELSE IF pc = "Cb" THEN YBlocksPerMcu
  ELSE YBlocksPerMcu + 1

\* C21: blocks are emitted MCU by MCU in raster order.  Whenever a block is
\* about to be encoded, the loops are at an MCU of the image grid and at a
\* block of it, the number of blocks emitted so far is the number of blocks
\* of all the MCUs before it in raster order plus those before it in its own
\* MCU (Y top-left, Y top-right, Y bottom-left, Y bottom-right, Cb, Cr in
\* 4:2:0; Y, Cb, Cr in 4:4:4; Y alone in grayscale), and only a colour image
\* has Cb and Cr blocks; once the loops are left, ceil(W / mcuSize) *
\* ceil(H / mcuSize) MCUs of BlocksPerMcu blocks each have been emitted.
C21_McuRasterOrder ==
  /\ pc \in {"Y", "Cb", "Cr"} =>
       /\ mcuX % mcuSize = 0 /\ mcuX < args.width
       /\ mcuY % mcuSize = 0 /\ mcuY < args.height
       /\ blockX \in {0, 8} /\ blockX < mcuSize
       /\ blockY \in {0, 8} /\ blockY < mcuSize
       /\ pc \in {"Cb", "Cr"} => args.isRGB
       /\ blockNo = McuIndex * BlocksPerMcu + PlaceInMcu
  /\ (pc \in {"flush", "eoi"} \/ (Done /\ result = "true")) =>
       blockNo = McusAlong(args.width) * McusAlong(args.height) * BlocksPerMcu

\* the Cr block of the fourth MCU of a 17 x 9 colour image in 4:4:4 (the
\* first of the second row of MCUs) is about to be encoded
C21_Witness ==
  /\ pc = "Cr"
  /\ args.isRGB /\ ~downsample
  /\ args.width = 17 /\ args.height = 9
  /\ mcuX = 0 /\ mcuY = 8
  /\ blockNo = 11

\* ------------------------------------------------------------------------
\* C22, C23: the pixels the samples are taken from
\* ------------------------------------------------------------------------

\* byte c of the pixel at (row, column) of the image, a buffer of rows of
\* width pixels of bpp bytes: the ramp has byte k equal to (7 * k) % 256,
\* which depends on k % 256 only
ByteOfPixel(image, width, bpp, row, column, c) ==
  IF image.kind = "flat" THEN image.colour[c + 1]
  ELSE (7 * ((bpp * ((row % 256) * (width % 256) + (column % 256)) + c)
             % 256)) % 256

\* the Y sample of the pixel at (row, column)
YOfPixel(image, width, isRGB, row, column) ==
  IF ~isRGB THEN (ByteOfPixel(image, width, 1, row, column, 0) - 128) * Fix
  ELSE rgb2y(ByteOfPixel(image, width, 3, row, column, 0),
             ByteOfPixel(image, width, 3, row, column, 1),
             ByteOfPixel(image, width, 3, row, column, 2)) - 128 * Fix

\* Y holds a block sampled by this iteration of the MCU loops
YSampled == pc \in {"sampleY", "sampleCbCr", "sampled"} /\ Y # Indeterminate

\* the offset in its MCU, along one axis, of the block Y was last filled
\* for: the loops run blockY outer, blockX inner, and stay at the last
\* block once the four (or the one) are done
SampledBlockX == IF pc = "sampleY" THEN 8 - blockX ELSE blockX

SampledBlockY == IF pc = "sampleY" THEN (IF blockX = 8 THEN blockY ELSE 0)
                 ELSE blockY

\* C22: the luma sample (dy, dx) of the block whose top-left corner is
\* (x0, y0) is taken from the pixel at row min(y0 + dy, H - 1) and column
\* min(x0 + dx, W - 1), for every W, H >= 1, and every pixel index read is
\* inside the buffer: the sampling reads nothing undefined and does not end
\* the process
C22_Stated ==
  /\ ~undefinedBehaviour
  /\ result # "crash"
  /\ YSampled =>
       \A n \in 0..63 :
         Y[n] = YOfPixel(args.image, args.width, args.isRGB,
                         Min(mcuY + SampledBlockY + (n \div 8), args.height - 1),
                         Min(mcuX + SampledBlockX + (n % 8), args.width - 1))

\* the same for the images whose pixel offsets fit in an int
C22_WithinInt ==
  args.height <= (IntMax \div 3) \div args.width => C22_Stated

\* the bottom-right Y block of the last MCU of a 33 x 40 ramp in 4:2:0 has
\* been sampled: it lies entirely outside the image
C22_Reached ==
  /\ YSampled /\ pc = "sampleCbCr" /\ downsample
  /\ args.image.kind = "ramp"
  /\ args.width = 33 /\ args.height = 40
  /\ mcuX = 32 /\ mcuY = 32
  /\ SampledBlockX = 8 /\ SampledBlockY = 8

\* the sums r, g, b over the four pixels at rows min(y0 + 2 deltaY, H - 1)
\* and min(y0 + 2 deltaY + 1, H - 1) and columns min(x0 + 2 deltaX, W - 1)
\* and min(x0 + 2 deltaX + 1, W - 1)
SumOfFour(image, width, height, x0, y0, deltaY, deltaX) ==
  [k \in 1..3 |->
     ByteOfPixel(image, width, 3, Min(y0 + 2 * deltaY, height - 1),
                 Min(x0 + 2 * deltaX, width - 1), k - 1)
     + ByteOfPixel(image, width, 3, Min(y0 + 2 * deltaY, height - 1),
                   Min(x0 + 2 * deltaX + 1, width - 1), k - 1)
     + ByteOfPixel(image, width, 3, Min(y0 + 2 * deltaY + 1, height - 1),
                   Min(x0 + 2 * deltaX, width - 1), k - 1)
     + ByteOfPixel(image, width, 3, Min(y0 + 2 * deltaY + 1, height - 1),
                   Min(x0 + 2 * deltaX + 1, width - 1), k - 1)]

\* the YCbCr420 pass of this MCU has filled Cb and Cr
ChromaSampled == pc = "sampled" /\ downsample

\* C23: in 4:2:0 mode, for every W, H >= 1, the chroma sample (dy, dx) of
\* the MCU at (mcuX, mcuY) is computed from the sum of the four pixels at
\* rows min(mcuY + 2dy, H - 1), min(mcuY + 2dy + 1, H - 1) and columns
\* min(mcuX + 2dx, W - 1), min(mcuX + 2dx + 1, W - 1), divided by 4 after
\* conversion, and every byte offset the pass reads lies inside the pixel
\* buffer
C23_Stated ==
  /\ (pc = "sampleCbCr" /\ downsample) =>
       /\ Defined(CbBlock420(args.image, args.width, args.height, mcuX, mcuY))
       /\ Defined(CrBlock420(args.image, args.width, args.height, mcuX, mcuY))
  /\ ChromaSampled =>
       \A n \in 0..63 :
         /\ Cb[n] = CbSample(SumOfFour(args.image, args.width, args.height,
                                       mcuX, mcuY, n \div 8, n % 8), 4)
         /\ Cr[n] = CrSample(SumOfFour(args.image, args.width, args.height,
                                       mcuX, mcuY, n \div 8, n % 8), 4)

\* the same for the images whose byte offsets fit in an int
C23_WithinInt ==
  args.height <= (IntMax \div 3) \div args.width => C23_Stated

\* the pass has run on the last MCU of a 33 x 40 ramp, which overhangs the
\* image to the right and below
C23_Reached ==
  /\ ChromaSampled
  /\ args.image.kind = "ramp"
  /\ args.width = 33 /\ args.height = 40
  /\ mcuX = 32 /\ mcuY = 32
  /\ Cb[0] # Cb[63]

\* ------------------------------------------------------------------------
\* C24, C25: the Huffman code builder
\* ------------------------------------------------------------------------

\* the builder has returned the array tableOut for tableIn
TableBuilt == pc = "done" /\ tableIn # <<>> /\ tableOut # <<>>

\* the bit size of the k-th value: the smallest L with k <= numCodes[1] +
\* ... + numCodes[L]
SizeOfValue(numCodes, k) ==
  CHOOSE L \in 1..16 :
    /\ k <= TotalCodes(numCodes, 1, L)
    /\ k > TotalCodes(numCodes, 1, L - 1)

RECURSIVE SumOverEarlier(_, _, _, _)
\* the sum of 2^(L - size of the j-th value) over j = lo..hi, in 16 bits
SumOverEarlier(numCodes, L, lo, hi) ==
  IF lo > hi THEN 0
  ELSE IF lo = hi THEN Pow2(L - SizeOfValue(numCodes, lo)) % 65536
  ELSE (SumOverEarlier(numCodes, L, lo, (lo + hi) \div 2)
        + SumOverEarlier(numCodes, L, (lo + hi) \div 2 + 1, hi)) % 65536

\* the code the walk gives the k-th value: the running code starts at 0, is
\* incremented after every value and doubled after every bit size, so it
\* has grown by 2^(L - size of j) for every earlier value j when the k-th
\* value, of size L, is reached
CanonicalCode(numCodes, k) ==
  SumOverEarlier(numCodes, SizeOfValue(numCodes, k), 1, k - 1)

\* table[values[k]] = (code, L) for every k, the values being distinct
AssignedCanonically ==
  \A k \in 1..Len(tableIn.values) :
    tableOut[tableIn.values[k]] =
      BitCode(CanonicalCode(tableIn.numCodes, k),
              SizeOfValue(tableIn.numCodes, k))

\* every assigned code fits in its own number of bits
CodesFit ==
  \A k \in 1..Len(tableIn.values) :
    tableOut[tableIn.values[k]].code
      < Pow2(tableOut[tableIn.values[k]].numBits)

\* the code of a is the code of b cut down to the size of a
IsPrefix(a, b) ==
  a.numBits <= b.numBits /\ a.code = b.code \div Pow2(b.numBits - a.numBits)

\* no assigned code is a prefix of another
PrefixFree ==
  \A j, k \in 1..Len(tableIn.values) :
    j # k => ~IsPrefix(tableOut[tableIn.values[j]],
                       tableOut[tableIn.values[k]])

\* C24: given (bits[16], values[]), the builder assigns the codes
\* canonically (the k-th value gets the running code and its bit size), every
\* assigned code fits in its own L bits and no assigned code is a prefix of
\* another
C24_Stated == TableBuilt => AssignedCanonically /\ CodesFit /\ PrefixFree

\* 2^16 times the Kraft sum of the bit sizes: at most 2^16 if and only if a
\* prefix code with these sizes exists
KraftSum(numCodes) ==
  TotalCodes([L \in 1..16 |-> numCodes[L] * Pow2(16 - L)], 1, 16)

\* the same for the inputs that leave room for their codes
C24_WithinKraft == KraftSum(tableIn.numCodes) <= 65536 => C24_Stated

\* the canonical assignment alone, which holds for every input
C24_Canonical == TableBuilt => AssignedCanonically

\* the table of the AC luminance codes has been built
C24_Reached ==
  /\ TableBuilt
  /\ tableIn.values = AcLuminanceValues
  /\ tableOut[240] = BitCode(2041, 11)

\* the running code leaves its bit size or 16 bits while values remain
Overflows(numCodes) == KraftSum(numCodes) > 65536

\* C25: the builder rejects an input whose accumulated running code would
\* overflow 16 bits (or would not fit in its length L), instead of producing
\* a table from it
C25_Stated == (pc = "done" /\ tableIn # <<>> /\ Overflows(tableIn.numCodes))
              => (result # "returned" /\ tableOut = <<>>)

\* the inputs that overflow are given a table like all others
C25_TableAnyway == (pc = "done" /\ tableIn # <<>>) => TableBuilt

\* three codes of one bit: the third is 2, which needs two bits
C25_Reached ==
  /\ TableBuilt
  /\ tableIn.numCodes[1] = 3
  /\ tableOut[tableIn.values[3]] = BitCode(2, 1)

\* ------------------------------------------------------------------------
\* C26: the codeword table
\* ------------------------------------------------------------------------

\* the number of bits needed to represent v >= 1: ceil(log2(v + 1))
BitsNeeded(v) == CHOOSE n \in 1..31 : Pow2(n - 1) <= v /\ v < Pow2(n)

\* the two entries of a magnitude have been read
CodewordsRead == pc = "done" /\ tableOut # <<>> /\ tableIn # <<>>

\* C26: for every v in 1..2047 the codeword table holds CW[+v] = (code v,
\* bits = number of bits needed to represent v) and CW[-v] = (code
\* (2^bits - 1) - v, same bits); both codes are below 2^bits, bits is
\* between 1 and 11 and the two codes add up to 2^bits - 1
C26_CodewordTable ==
  CodewordsRead =>
    /\ tableOut.plus = BitCode(tableIn.value, BitsNeeded(tableIn.value))
    /\ tableOut.minus =
         BitCode((Pow2(BitsNeeded(tableIn.value)) - 1) - tableIn.value,
                 BitsNeeded(tableIn.value))
    /\ tableOut.plus.code < Pow2(tableOut.plus.numBits)
    /\ tableOut.minus.code < Pow2(tableOut.minus.numBits)
    /\ tableOut.plus.numBits \in 1..11
    /\ tableOut.plus.code + tableOut.minus.code
         = Pow2(tableOut.plus.numBits) - 1

\* the entries of 1024, the first magnitude of eleven bits, have been read:
\* (1024, 11) and (1023, 11)
C26_Witness ==
  /\ CodewordsRead
  /\ tableIn.value = 1024
  /\ tableOut.plus = BitCode(1024, 11)
  /\ tableOut.minus = BitCode(1023, 11)

\* ------------------------------------------------------------------------
\* C29: the index of the AC emission loop
\* ------------------------------------------------------------------------

\* encode_block has been called on its own and has returned
BlockEncodedAlone == pc = "done" /\ blockIn # <<>>

\* the indices at which that call read quantized[]
QuantizedReads == { l[2] : l \in { k \in lookups : k[1] = "quantized" } }

\* some coefficient at index i or after it is not zero: i is at or before
\* the last non-zero coefficient
AtOrBeforeLastNonZero(quantized, i) ==
  \E j \in i..63 : quantized[j] # 0

\* C29: in the AC emission loop the coefficient index is within
\* 1..posNonZero, hence within 1..63, at every read of quantized[], for
\* every coefficient vector: quantized[0] is never read, no read goes past
\* index 63 or past the last non-zero coefficient
C29_IndexWithinPosNonZero ==
  BlockEncodedAlone =>
    \A i \in QuantizedReads :
      /\ i \in 1..63
      /\ i # 0
      /\ AtOrBeforeLastNonZero(blockIn.quantized, i)

\* a block whose last coefficient is the only one after a run of zeros that
\* starts at index 17 or before: the loop has read every index up to 63
C29_Witness ==
  /\ BlockEncodedAlone
  /\ blockIn.quantized[63] # 0
  /\ \A i \in 18..62 : blockIn.quantized[i] = 0
  /\ QuantizedReads = 1..63

\* ------------------------------------------------------------------------
\* C27: the table entries the block encoder reads
\* ------------------------------------------------------------------------

\* the indices at which the call read the array named
LookedUp(array) == { l[2] : l \in { k \in lookups : k[1] = array } }

\* the symbols a spec table defines
ValuesOf(values) == { values[k] : k \in DOMAIN values }

DcValues(luminance) ==
  ValuesOf(IF luminance THEN DcLuminanceValues ELSE DcChrominanceValues)

AcValues(luminance) ==
  ValuesOf(IF luminance THEN AcLuminanceValues ELSE AcChrominanceValues)

\* a bit code with 1 to 16 bits
Written(bitCode) == bitCode.numBits \in 1..16

\* C27: during block encoding the encoder never reads an uninitialised
\* table entry: codewords[0] is never indexed, every codeword index v has
\* 0 < |v| < 2048, every Huffman symbol looked up (the DC category, the AC
\* symbols 0x00, 0xF0 and run|category) is defined by the corresponding
\* spec table, and so every bit code handed to the writer has 1 to 16 bits
C27_NoUninitialisedEntry ==
  BlockEncodedAlone =>
    /\ \A v \in LookedUp("codewords") :
         /\ v # 0
         /\ Abs(v) > 0 /\ Abs(v) < 2048
         /\ Written(codewordsArray[v])
    /\ \A symbol \in LookedUp("huffmanDC") :
         /\ symbol \in DcValues(blockIn.luminance)
         /\ Written(huffmanDC(blockIn.luminance)[symbol])
    /\ \A symbol \in LookedUp("huffmanAC") :
         /\ symbol \in AcValues(blockIn.luminance)
         /\ Written(huffmanAC(blockIn.luminance)[symbol])

\* a block of samples -128 and 127 after a block of samples -128, at
\* quality 100: the DC difference has eleven bits, a coefficient has ten,
\* and the symbols 0xF0 and 0x00 have been looked up
C27_Witness ==
  /\ BlockEncodedAlone
  /\ blockIn.lastDC = -1024
  /\ 11 \in LookedUp("huffmanDC")
  /\ \E v \in LookedUp("codewords") : Abs(v) >= 512 /\ v # 1016 - (-1024)
  /\ 240 \in LookedUp("huffmanAC")
  /\ 0 \in LookedUp("huffmanAC")

\* ------------------------------------------------------------------------
\* C28: HttpSocket::receive on a well-formed response
\* ------------------------------------------------------------------------

\* the response being received is one of the well-formed ones
WellFormed ==
  /\ socket # <<>>
  /\ [response |-> socket.response, body |-> socket.body,
      status_code |-> socket.status_code] \in WellFormedResponses

\* the bytes handed to the callback so far, in order
Handed ==
  Flatten([i \in 1..Len(callback) |-> callback[i].view], 1, Len(callback))

\* receive has returned
Received == pc = "done" /\ result = "returned"

\* the callback got exactly the body and the parsed header returned is that
\* of the response, with received_bytes the number of bytes handed over
BodyHanded ==
  /\ Handed = socket.body
  /\ returned.status_code = socket.status_code
  /\ returned.length = Len(socket.body)
  /\ returned.received_bytes = Len(Handed)

\* C28: for a well-formed HTTP/1.1 response and every way its bytes are
\* split across successive reads, receive hands the callback exactly the
\* body bytes, in order and without any byte of the status line or the
\* headers, keeps reading until Content-Length body bytes have been
\* received, and returns the parsed status code with received_bytes equal
\* to the number of body bytes handed to the callback
C28_Stated ==
  WellFormed =>
    /\ pc = "done" => Received /\ BodyHanded /\ Unread = <<>>
    /\ pc = "receive" /\ socket.at > 0 =>
         /\ Len(Handed) < Len(socket.body)
         /\ Handed = SubSeq(socket.body, 1, Len(Handed))

\* the part of C28 the code satisfies: if receive returns a parsed header
\* at all (a status code other than 0), the callback got exactly the body
\* and every byte has been read
C28_WhenHeaderParsed ==
  WellFormed /\ pc = "done" /\ returned.status_code # 0 =>
    Received /\ BodyHanded /\ Unread = <<>>

\* receive never throws on a well-formed response, and returns nothing
\* parsed only without having called the callback
C28_NothingParsedNothingHanded ==
  WellFormed /\ pc = "done" =>
    /\ Received
    /\ returned.status_code = 0 => returned = NothingParsed /\ callback = <<>>

\* receive has returned after a first read that ended inside the header
\* block: no status code, no callback, the rest of the response unread
C28_Reached ==
  /\ WellFormed
  /\ Received
  /\ returned = NothingParsed
  /\ callback = <<>>
  /\ Unread # <<>>

\* receive has returned after the body arrived in two reads of its own
C28_ReachedWhole ==
  /\ WellFormed
  /\ Received
  /\ BodyHanded
  /\ Len(callback) = 3
  /\ callback[1].view = <<>>

\* ------------------------------------------------------------------------
\* C30: quantization and quality
\* ------------------------------------------------------------------------

\* the tables of two accepted qualities have been built
QuantTablesBuilt == pc = "done" /\ tableIn # <<>> /\ tableOut # <<>>

\* no entry of the tables of the higher quality exceeds the entry of the
\* lower quality
NoCoarser ==
  \A i \in 1..64 :
    /\ tableOut.higher.quantLuminance[i] <= tableOut.lower.quantLuminance[i]
    /\ tableOut.higher.quantChrominance[i]
         <= tableOut.lower.quantChrominance[i]

\* C30: quantization is monotone in quality: for any two accepted
\* qualities q1 < q2 and every index i, the quantization table entry built
\* for q2 is less than or equal to the entry built for q1
C30_Stated == QuantTablesBuilt => NoCoarser

\* the part of C30 the code satisfies: the qualities whose scale factor
\* fits in the unsigned char parameter of quant_table (20 and above)
C30_WithinUnsignedChar ==
  QuantTablesBuilt /\ QualityFactor(tableIn.lower) <= 255 => NoCoarser

\* the tables of qualities 19 and 20 have been built: the first
\* luminance entry is 1 at quality 19 and 40 at quality 20
C30_Reached ==
  /\ QuantTablesBuilt
  /\ tableIn = [lower |-> 19, higher |-> 20]
  /\ tableOut.lower.quantLuminance[1] = 1
  /\ tableOut.higher.quantLuminance[1] = 40
====
